---- MODULE Spec2Model ----
(***************************************************************************)
(* PhantomBand: the tabular RF report builder (utils/csvParser.ts,         *)
(* parseAndAnalyzeCsv) as a state machine.  One invocation reads a file,   *)
(* runs the whole pipeline in the FileReader's onload handler and settles  *)
(* the promise with a report, a ColumnDetectionError or a generic Error.   *)
(***************************************************************************)
EXTENDS Integers, Sequences, FiniteSets, TLC

(***************************************************************************)
(* JavaScript numbers.  A number is NaN, an infinity, or a finite value    *)
(* hi * Base + lo with |lo| < Base and hi, lo of one sign: epoch           *)
(* milliseconds (about 10^12) do not fit one machine integer of the        *)
(* checker, so a finite value is kept in two limbs.  Null is               *)
(* parseTimestamp's null.                                                  *)
(***************************************************************************)
Base == 10 ^ 6

Norm(h, l) ==
    LET fh == h + (l \div Base)
        fl == l % Base
    IN  IF fh < 0 /\ fl > 0
        THEN [k |-> "num", hi |-> fh + 1, lo |-> fl - Base]
        ELSE [k |-> "num", hi |-> fh, lo |-> fl]

Num(v) == Norm(0, v)

NaN == [k |-> "nan", hi |-> 0, lo |-> 0]

PosInf == [k |-> "inf", hi |-> 1, lo |-> 0]

NegInf == [k |-> "inf", hi |-> -1, lo |-> 0]

Null == [k |-> "null", hi |-> 0, lo |-> 0]

IsNaN(x) == x.k = "nan"

IsFinite(x) == x.k = "num"

\* The sign of a non-NaN number: -1, 0 or 1.
Sgn(x) ==
    IF x.hi < 0 \/ x.lo < 0 THEN -1
    ELSE IF x.hi > 0 \/ x.lo > 0 THEN 1
    ELSE 0

FNeg(x) ==
    CASE x.k = "num" -> Norm(-x.hi, -x.lo)
      [] x.k = "inf" -> [x EXCEPT !.hi = -x.hi]
      [] OTHER -> x

\* x + y as IEEE addition decides it (rounding of finite sums is not modelled).
FAdd(x, y) ==
    CASE IsNaN(x) \/ IsNaN(y) -> NaN
      [] x.k = "inf" /\ y.k = "inf" -> IF x.hi = y.hi THEN x ELSE NaN
      [] x.k = "inf" -> x
      [] y.k = "inf" -> y
      [] OTHER -> Norm(x.hi + y.hi, x.lo + y.lo)

FSub(x, y) == FAdd(x, FNeg(y))

\* The sign of a comparator's result as Array.prototype.sort reads it: NaN is +0.
CmpSign(d) == IF IsNaN(d) THEN 0 ELSE Sgn(d)

\* x < y and x > y on numbers: false when either is NaN.
FLt(x, y) == ~IsNaN(x) /\ ~IsNaN(y) /\ x # y /\ Sgn(FSub(x, y)) < 0

FGt(x, y) == FLt(y, x)

FLe(x, y) == ~IsNaN(x) /\ ~IsNaN(y) /\ (x = y \/ FLt(x, y))

\* Math.min and Math.max of two numbers.
MathMin(x, y) ==
    IF IsNaN(x) \/ IsNaN(y) THEN NaN ELSE IF FLt(y, x) THEN y ELSE x

MathMax(x, y) ==
    IF IsNaN(x) \/ IsNaN(y) THEN NaN ELSE IF FGt(y, x) THEN y ELSE x

\* x * m for a small positive integer m (m <= 1000).
FScale(x, m) ==
    CASE x.k = "num" -> Norm(x.hi * m, x.lo * m)
      [] OTHER -> x

\* x / d for an integer d > 0, kept as the fraction itself: [num, den].
FDiv(x, d) == [num |-> x, den |-> d]

(***************************************************************************)
(* Text.  A file is a sequence of lines; a line is a sequence of tokens,   *)
(* each an atom (a run of characters holding no delimiter and no white     *)
(* space) with the separator character that follows it ("" after the       *)
(* last).  A line with no token is a blank (white-space only) line; the    *)
(* file with no line is the empty string.                                  *)
(*                                                                         *)
(* An atom records the lexical facts the parser's primitives read:         *)
(*   text, lower  the characters, and their toLowerCase()                  *)
(*   lex          "num": starts with a numeric literal; "date": an ISO     *)
(*                8601 date-time; "word": other text; "none": nothing      *)
(*                before the suffix                                        *)
(*   num          the value parseFloat reads off the start (a date's year) *)
(*   suffix       the lower-cased letters that follow the literal          *)
(*   ms           Date.parse of the text; NaN when it is no date           *)
(*   kws          the header keywords that are substrings of lower         *)
(***************************************************************************)
Atom(t, l, x, n, s, m, w) ==
    [text |-> t, lower |-> l, lex |-> x, num |-> n, suffix |-> s,
     commas |-> FALSE, junk |-> FALSE, ms |-> m, kws |-> w]

\* A plain decimal literal, e.g. "100" or "-70".
NumAtom(t, v) == Atom(t, t, "num", v, "", NaN, {})

\* A header or other word.
WordAtom(t, l, w) == Atom(t, l, "word", NaN, "", NaN, w)

EmptyAtom == Atom("", "", "none", NaN, "", NaN, {})

Tok(a, s) == [a |-> a, s |-> s]

\* The line holding the atoms of `atoms` separated by `sep`.
Row(sep, atoms) ==
    [i \in 1..Len(atoms) |-> Tok(atoms[i], IF i = Len(atoms) THEN "" ELSE sep)]

IsBlank(line) == \A i \in 1..Len(line) : line[i].a.text = "" /\ line[i].s \in {"", " ", "\t"}

\* The characters of a run of tokens, the last token's separator left out.
RECURSIVE TextOf(_, _)
TextOf(toks, lowered) ==
    IF Len(toks) = 0 THEN ""
    ELSE LET t == toks[1]
             c == IF lowered THEN t.a.lower ELSE t.a.text
         IN  IF Len(toks) = 1 THEN c ELSE c \o t.s \o TextOf(Tail(toks), lowered)

WhiteSpace == {" ", "\t"}

\* A run of tokens with its commas removed, as replace(/,/g, '') leaves it: an
\* empty atom next to a comma vanishes with the comma.
RECURSIVE Squeeze(_)
Squeeze(toks) ==
    IF Len(toks) <= 1 THEN toks
    ELSE IF toks[1].a.text = "" /\ toks[1].s = "," THEN Squeeze(Tail(toks))
    ELSE IF Len(toks) = 2 /\ toks[2].a.text = "" /\ toks[1].s = "," THEN <<toks[1]>>
    ELSE <<toks[1]>> \o Squeeze(Tail(toks))

\* How many leading tokens of `toks` form one numeric literal once commas are
\* removed: digit groups joined by commas ("1,700,000").
RECURSIVE GroupRun(_)
GroupRun(toks) ==
    IF Len(toks) = 0 \/ toks[1].a.lex # "num" THEN 0
    ELSE IF Len(toks) = 1 \/ toks[1].a.suffix # "" \/ toks[1].s # "," THEN 1
    ELSE LET nxt == toks[2].a
         IN  IF nxt.lex = "num" /\ IsFinite(nxt.num) /\ Sgn(nxt.num) >= 0
             THEN 1 + GroupRun(Tail(toks))
             ELSE 1

\* The value of the first n tokens read as digit groups: a group of d digits
\* shifts what precedes it by 10^d (d <= 3).
RECURSIVE GroupValue(_, _)
GroupValue(toks, n) ==
    IF n = 1 THEN toks[1].a.num
    ELSE LET prev == GroupValue(toks, n - 1)
             g    == toks[n].a
             sh   == FScale(prev, 10 ^ Len(g.text))
         IN  IF ~IsFinite(prev) THEN prev
             ELSE IF Sgn(prev) < 0 THEN FSub(sh, g.num) ELSE FAdd(sh, g.num)

\* The cell made of a run of tokens that the delimiter in use did not split.
\* A cell of several tokens is not a date to Date.parse.
Compose(toks) ==
    IF Len(toks) = 0 THEN EmptyAtom
    ELSE IF Len(toks) = 1 THEN toks[1].a
    ELSE LET sq    == Squeeze(toks)
             first == sq[1].a
             run   == GroupRun(sq)
         IN  [text   |-> TextOf(toks, FALSE),
              lower  |-> TextOf(toks, TRUE),
              lex    |-> IF first.lex = "date" THEN "num" ELSE first.lex,
              num    |-> IF run = 0 THEN first.num ELSE GroupValue(sq, run),
              suffix |-> sq[Len(sq)].a.suffix,
              commas |-> \E i \in 1..(Len(toks) - 1) : toks[i].s = ",",
              junk   |-> run < Len(sq),
              ms     |-> NaN,
              kws    |-> UNION {toks[i].a.kws : i \in 1..Len(toks)}]

\* The pieces of a run of tokens cut at each separator in `seps`.
RECURSIVE Pieces(_, _, _)
Pieces(toks, seps, cur) ==
    IF Len(toks) = 0 THEN <<cur>>
    ELSE LET t == toks[1]
             c == Append(cur, t)
         IN  IF t.s \in seps
             THEN <<c>> \o Pieces(Tail(toks), seps, <<>>)
             ELSE Pieces(Tail(toks), seps, c)

\* String.prototype.trim on a run of tokens.
RECURSIVE TrimTokens(_)
TrimTokens(p) ==
    IF Len(p) > 1 /\ p[1].a.text = "" /\ p[1].s \in WhiteSpace
    THEN TrimTokens(Tail(p))
    ELSE IF Len(p) > 1 /\ p[Len(p)].a.text = "" /\ p[Len(p) - 1].s \in WhiteSpace
    THEN TrimTokens(SubSeq(p, 1, Len(p) - 1))
    ELSE p

\* line.split(d): the pieces between the occurrences of d.
SplitOn(line, d) == Pieces(line, {d}, <<>>)

\* line.split(d).map(s => s.trim())
SplitLine(line, d) ==
    LET ps == SplitOn(line, d)
    IN  [i \in 1..Len(ps) |-> Compose(TrimTokens(ps[i]))]

\* line.trim().split(/\s+/): runs of white space separate, so no cell is empty.
SplitWhitespace(line) ==
    LET ps   == Pieces(line, WhiteSpace, <<>>)
        kept == SelectSeq(ps, LAMBDA p : TextOf(p, FALSE) # "")
    IN  IF Len(kept) = 0 THEN <<EmptyAtom>>
        ELSE [i \in 1..Len(kept) |-> Compose(kept[i])]

(***************************************************************************)
(* The parser's primitives on a cell.                                      *)
(***************************************************************************)
\* values[i] of a row that has no cell i.
Undefined == Atom("", "", "undefined", NaN, "", NaN, {})

\* !value for a cell or undefined
Falsy(c) == c.text = ""

\* s.toLowerCase(); an atom's suffix is kept lower-cased already.
ToLower(c) == [c EXCEPT !.text = c.lower]

\* parseFloat(s), s without commas: the number at the start of s, or NaN.
ParseFloat(c) == IF c.lex \in {"num", "date"} THEN c.num ELSE NaN

\* Number(s) for a non-empty s: the number s is, NaN when anything else follows.
ToNumber(c) ==
    IF c.lex = "num" /\ c.suffix = "" /\ ~c.junk /\ ~c.commas THEN c.num ELSE NaN

\* s.replace(/,/g, '')
RemoveCommas(c) == [c EXCEPT !.commas = FALSE]

\* s.replace(/(mhz|khz|ghz|hz|dbm|db|mw|pwr)$/i, '')
UnitSuffixes == {"mhz", "khz", "ghz", "hz", "dbm", "db", "mw", "pwr"}

StripUnit(c) == IF c.suffix \in UnitSuffixes THEN [c EXCEPT !.suffix = ""] ELSE c

\* s === '' for a cell
IsEmptyString(c) == c.lex = "none" /\ c.suffix = "" /\ ~c.junk

isNumeric(c) ==
    IF c.text = "" THEN FALSE
    ELSE LET numStr == RemoveCommas(c)
         IN  ~IsNaN(ParseFloat(numStr)) /\ IsFinite(ToNumber(numStr))

\* cleanAndParseFloat
cleanAndParseFloat(value) ==
    IF Falsy(value) THEN NaN
    ELSE LET cleanedValue == StripUnit(ToLower(RemoveCommas(value)))
         IN  IF IsEmptyString(cleanedValue) THEN NaN ELSE ParseFloat(cleanedValue)

\* 1000000000000: above it a numeric timestamp is taken to be milliseconds.
EpochMsThreshold == Norm(10 ^ 6, 0)

\* new Date(s).getTime(): NaN for an invalid date
DateGetTime(c) == c.ms

\* parseTimestamp, were every numeric cell taken to be seconds.
parseTimestampAsSeconds(value) ==
    IF Falsy(value) THEN Null
    ELSE IF isNumeric(value)
    THEN FScale(ToNumber(value), 1000)
    ELSE IF ~IsNaN(DateGetTime(value)) THEN DateGetTime(value)
    ELSE Null

\* parseTimestamp: a number of milliseconds (NaN included) or Null.
parseTimestamp(value) ==
    IF Falsy(value) THEN Null
    ELSE IF isNumeric(value)
    THEN LET num == ToNumber(value)
         IN  IF FGt(num, EpochMsThreshold) THEN num ELSE FScale(num, 1000)
    ELSE IF ~IsNaN(DateGetTime(value)) THEN DateGetTime(value)
    ELSE Null

(***************************************************************************)
(* Header keywords (csvParser.ts), and the atoms the inputs are made of.   *)
(***************************************************************************)
freqKeywords ==
    {"freq", "frequency", "mhz", "khz", "ghz", "hertz", "hz", "channel", "band",
     "freq.", "f(mhz)"}

powerKeywords ==
    {"power", "dbm", "db", "level", "amplitude", "rssi", "signal", "strength",
     "intensity", "sig_str", "pwr"}

timeKeywords == {"time", "timestamp", "date", "datetime", "epoch"}

HFrequency == WordAtom("Frequency", "frequency", {"freq", "frequency"})

HPower == WordAtom("Power", "power", {"power"})

HTime == WordAtom("Time", "time", {"time"})

HFreqMHz == WordAtom("Frequency(MHz)", "frequency(mhz)", {"freq", "frequency", "mhz", "hz"})

HPowerDbm == WordAtom("Power(dBm)", "power(dbm)", {"power", "dbm", "db"})

HA == WordAtom("A", "a", {})

HB == WordAtom("B", "b", {})

HC == WordAtom("C", "c", {})

NotAvailable == WordAtom("N/A", "n/a", {})

\* "-70dBm": a literal with a unit suffix
Minus70dBm == Atom("-70dBm", "-70dbm", "num", Num(-70), "dbm", NaN, {"dbm", "db"})

\* "2GHz" and "100mW": literals with a unit of another scale
TwoGHz == Atom("2GHz", "2ghz", "num", Num(2), "ghz", NaN, {"ghz", "hz"})

HundredMilliwatts == Atom("100mW", "100mw", "num", Num(100), "mw", NaN, {})

\* "1e999": a literal past the largest double, which parseFloat reads as Infinity
Overflow == Atom("1e999", "1e999", "num", PosInf, "", NaN, {})

\* epoch seconds and epoch milliseconds of the same instant, and a minute later
EpochSec == NumAtom("1700000000", Norm(1700, 0))

EpochSecLater == NumAtom("1700000060", Norm(1700, 60))

EpochMs == NumAtom("1700000000000", Norm(1700000, 0))

\* an ISO 8601 date-time of that instant: parseFloat reads its year
IsoDate ==
    Atom("2023-11-14T22:13:20Z", "2023-11-14t22:13:20z", "date", Num(2023), "",
         Norm(1700000, 0), {})

(***************************************************************************)
(* Sequences as the parser uses them.                                      *)
(***************************************************************************)
Min(a, b) == IF a < b THEN a ELSE b

Max(a, b) == IF a > b THEN a ELSE b

\* arr.slice(0, n)
Take(s, n) == SubSeq(s, 1, Min(n, Len(s)))

\* arr.slice(n) for n >= 0
Drop(s, n) == SubSeq(s, n + 1, Len(s))

\* arr.slice(-n)
TakeLast(s, n) == SubSeq(s, Max(1, Len(s) - n + 1), Len(s))

\* Array.prototype.sort(compareFn): a stable sort.  cmp[j, i] is the sign of
\* compareFn(s[j], s[i]), a consistent ordering here, so each element's place is
\* the number of elements that sort before it, or equal it and precede it, plus
\* one.
StableSort(s, cmp) ==
    LET place(i) ==
            1 + Cardinality({j \in DOMAIN s :
                                \/ cmp[j, i] < 0
                                \/ cmp[j, i] = 0 /\ j < i})
    IN  [p \in DOMAIN s |-> s[CHOOSE i \in DOMAIN s : place(i) = p]]

RECURSIVE SumSeq(_)
SumSeq(s) == IF Len(s) = 0 THEN 0 ELSE s[1] + SumSeq(Tail(s))

(***************************************************************************)
(* parseAndAnalyzeCsv, stage by stage.                                     *)
(***************************************************************************)
\* text.trim().split(/\r\n?|\n/).filter(line => line.trim() !== '')
NonBlankLines(text) == SelectSeq(text, LAMBDA l : ~IsBlank(l))

\* the sample handed to detectDelimiter
DelimiterSampleSize == 50

Delimiters == <<",", ";", "\t">>

\* sampleLines.map(l => l.split(d).length).filter(c => c > 1)
FieldCounts(sampleLines, d) ==
    SelectSeq([i \in 1..Len(sampleLines) |-> Len(SplitOn(sampleLines[i], d))],
              LAMBDA c : c > 1)

\* counts.length < Math.min(sampleLines.length, 5) * 0.5
DelimiterDiscarded(counts, n) == 2 * Len(counts) < Min(n, 5)

\* The variance of the counts as the fraction num / den (stddev is its root).
Variance(counts) ==
    LET m == Len(counts)
        sm == SumSeq(counts)
        sq == SumSeq([i \in 1..m |-> counts[i] * counts[i]])
    IN  [num |-> m * sq - sm * sm, den |-> m * m]

\* stddev < 0.5
LowVariance(v) == 4 * v.num < v.den

\* the sign of b.stddev - a.stddev, the order turned round
CmpStddevReversed(a, b) ==
    LET l == a.v.num * b.v.den
        r == b.v.num * a.v.den
    IN  IF l < r THEN 1 ELSE IF l > r THEN -1 ELSE 0

\* the sign of a.stddev - b.stddev
CmpStddev(a, b) ==
    LET l == a.v.num * b.v.den
        r == b.v.num * a.v.den
    IN  IF l < r THEN -1 ELSE IF l > r THEN 1 ELSE 0

detectDelimiter(sampleLines) ==
    LET stats == [i \in 1..Len(Delimiters) |->
                    LET counts == FieldCounts(sampleLines, Delimiters[i])
                    IN  IF DelimiterDiscarded(counts, Len(sampleLines))
                        THEN [d |-> Delimiters[i], v |-> [num |-> 1, den |-> 1],
                              valid |-> FALSE]
                        ELSE [d |-> Delimiters[i], v |-> Variance(counts),
                              valid |-> TRUE]]
        candidates == SelectSeq(stats, LAMBDA st : st.valid /\ LowVariance(st.v))
    IN  IF Len(candidates) > 0
        THEN StableSort(candidates,
                        [j, i \in DOMAIN candidates |->
                            CmpStddev(candidates[j], candidates[i])])[1].d
        ELSE " "

parseCsvRow(row, delimiter) ==
    IF delimiter = " " THEN SplitWhitespace(row) ELSE SplitLine(row, delimiter)

DelimiterOf(lines) == detectDelimiter(Take(lines, DelimiterSampleSize))

\* how many leading lines the boundary scan reads
BoundaryScanLines == 10

\* A data row likely starts with a number.
LooksLikeData(cols) ==
    Len(cols) >= 2 /\ (isNumeric(cols[1]) \/ parseTimestamp(cols[1]) # Null)

\* The boundary scan: the 0-based index of the first line of the relevant part.
dataStartIndex(lines, delimiter) ==
    LET scanned == 1..Min(BoundaryScanLines, Len(lines))
        hits == {i \in scanned : LooksLikeData(parseCsvRow(lines[i], delimiter))}
    IN  IF hits = {} THEN 0
        ELSE LET i == CHOOSE h \in hits : \A g \in hits : h <= g
                 cols == parseCsvRow(lines[i], delimiter)
             IN  IF i > 1
                 THEN LET prevCols == parseCsvRow(lines[i - 1], delimiter)
                      IN  IF Len(prevCols) = Len(cols)
                             /\ \E j \in 1..Len(prevCols) : ~isNumeric(prevCols[j])
                          THEN i - 2
                          ELSE i - 1
                 ELSE i - 1

\* firstLineValues.some(val => val !== '' && !isNumeric(val) && parseTimestamp(val) === null)
hasHeader(firstLineValues) ==
    \E j \in 1..Len(firstLineValues) :
        /\ firstLineValues[j].text # ""
        /\ ~isNumeric(firstLineValues[j])
        /\ parseTimestamp(firstLineValues[j]) = Null

\* `Column ${i + 1}`
SyntheticHeader(i) ==
    LET t == "Column " \o ToString(i) IN WordAtom(t, "column " \o ToString(i), {})

\* SplitHeader, were the header line left among the data lines.
SplitHeaderCountsHeader(lines, delimiter) ==
    LET relevantLines == Drop(lines, dataStartIndex(lines, delimiter))
        firstLineValues == parseCsvRow(relevantLines[1], delimiter)
    IN  IF hasHeader(firstLineValues)
        THEN [headerValues |-> firstLineValues, dataLines |-> relevantLines]
        ELSE [headerValues |-> [i \in 1..Len(firstLineValues) |-> SyntheticHeader(i)],
              dataLines |-> relevantLines]

\* The header cells and the data lines: [headerValues, dataLines].
SplitHeader(lines, delimiter) ==
    LET relevantLines == Drop(lines, dataStartIndex(lines, delimiter))
        firstLineValues == parseCsvRow(relevantLines[1], delimiter)
    IN  IF hasHeader(firstLineValues)
        THEN [headerValues |-> firstLineValues, dataLines |-> Tail(relevantLines)]
        ELSE [headerValues |-> [i \in 1..Len(firstLineValues) |-> SyntheticHeader(i)],
              dataLines |-> relevantLines]

\* the score of a header that is one of the keywords
ExactMatchScore == 10

scoreHeader(header, keywords) ==
    IF header.lower \in keywords THEN ExactMatchScore
    ELSE Cardinality(header.kws \cap keywords)

\* lowerCaseHeaders.map((h, i) => ({index: i, freqScore, powerScore, timeScore}))
ScoreHeaders(headerValues) ==
    [i \in 1..Len(headerValues) |->
        [index      |-> i - 1,
         freqScore  |-> scoreHeader(headerValues[i], freqKeywords),
         powerScore |-> scoreHeader(headerValues[i], powerKeywords),
         timeScore  |-> scoreHeader(headerValues[i], timeKeywords)]]

\* findBestUniqueIndex, were the indices already taken not looked at.
findBestIndex(primaryCandidates, otherIndices) ==
    IF Len(primaryCandidates) = 0 THEN -1 ELSE primaryCandidates[1].index

\* primaryCandidates.find(c => !otherIndices.includes(c.index))?.index ?? -1
findBestUniqueIndex(primaryCandidates, otherIndices) ==
    LET free == {i \in DOMAIN primaryCandidates :
                    primaryCandidates[i].index \notin otherIndices}
    IN  IF free = {} THEN -1
        ELSE primaryCandidates[CHOOSE i \in free : \A j \in free : i <= j].index

\* CmpFreqScore, were the lowest score to rank first.
CmpFreqScoreAscending(a, b) == a.freqScore - b.freqScore

CmpFreqScore(a, b) == b.freqScore - a.freqScore

CmpPowerScore(a, b) == b.powerScore - a.powerScore

CmpTimeScore(a, b) == b.timeScore - a.timeScore

\* InferColumns, were frequency and power not re-evaluated after a conflict.
InferColumnsOnce(headerValues) ==
    LET candidates == ScoreHeaders(headerValues)
        freqCandidates ==
            LET scored == SelectSeq(candidates, LAMBDA c : c.freqScore > 0)
            IN  StableSort(scored,
                           [j, i \in DOMAIN scored |-> CmpFreqScore(scored[j], scored[i])])
        powerCandidates ==
            LET scored == SelectSeq(candidates, LAMBDA c : c.powerScore > 0)
            IN  StableSort(scored,
                           [j, i \in DOMAIN scored |-> CmpPowerScore(scored[j], scored[i])])
        timeCandidates ==
            LET scored == SelectSeq(candidates, LAMBDA c : c.timeScore > 0)
            IN  StableSort(scored,
                           [j, i \in DOMAIN scored |-> CmpTimeScore(scored[j], scored[i])])
        freq1  == findBestUniqueIndex(freqCandidates, {})
        power1 == findBestUniqueIndex(powerCandidates, {freq1})
    IN  [freqIndex  |-> freq1,
         powerIndex |-> power1,
         timeIndex  |-> findBestUniqueIndex(timeCandidates, {freq1, power1})]

\* Automatic column-role inference: [freqIndex, powerIndex, timeIndex], -1 for none.
InferColumns(headerValues) ==
    LET candidates == ScoreHeaders(headerValues)
        freqCandidates ==
            LET scored == SelectSeq(candidates, LAMBDA c : c.freqScore > 0)
            IN  StableSort(scored,
                           [j, i \in DOMAIN scored |-> CmpFreqScore(scored[j], scored[i])])
        powerCandidates ==
            LET scored == SelectSeq(candidates, LAMBDA c : c.powerScore > 0)
            IN  StableSort(scored,
                           [j, i \in DOMAIN scored |-> CmpPowerScore(scored[j], scored[i])])
        timeCandidates ==
            LET scored == SelectSeq(candidates, LAMBDA c : c.timeScore > 0)
            IN  StableSort(scored,
                           [j, i \in DOMAIN scored |-> CmpTimeScore(scored[j], scored[i])])
        freq1  == findBestUniqueIndex(freqCandidates, {})
        power1 == findBestUniqueIndex(powerCandidates, {freq1})
        \* if freq and power conflicted, re-evaluate freq
        power2 == IF power1 = -1 THEN findBestUniqueIndex(powerCandidates, {}) ELSE power1
        freq2  == IF power1 = -1 THEN findBestUniqueIndex(freqCandidates, {power2}) ELSE freq1
    IN  [freqIndex  |-> freq2,
         powerIndex |-> power2,
         timeIndex  |-> findBestUniqueIndex(timeCandidates, {freq2, power2})]

\* options.key ?? -1
OptionOr(options, key) == IF key \in DOMAIN options THEN options[key] ELSE -1

\* InferenceRuns, were all three indices needed to skip inference.
InferenceRunsUnlessAllGiven(options) ==
    \E key \in {"manualFreqIndex", "manualPowerIndex", "manualTimeIndex"} :
        key \notin DOMAIN options

\* Inference runs unless both manualFreqIndex and manualPowerIndex are given.
InferenceRuns(options) ==
    "manualFreqIndex" \notin DOMAIN options \/ "manualPowerIndex" \notin DOMAIN options

\* The column of each role: the indices of the options, replaced by the inferred
\* ones when inference runs.
ResolveColumns(options, headerValues) ==
    IF InferenceRuns(options)
    THEN InferColumns(headerValues)
    ELSE [freqIndex  |-> OptionOr(options, "manualFreqIndex"),
          powerIndex |-> OptionOr(options, "manualPowerIndex"),
          timeIndex  |-> OptionOr(options, "manualTimeIndex")]

\* values[i] for a 0-based i
CellAt(values, i) == IF i + 1 \in DOMAIN values THEN values[i + 1] ELSE Undefined

DataPoint(frequency, power, timestamp) ==
    IF timestamp # Null
    THEN [frequency |-> frequency, power |-> power, timestamp |-> timestamp]
    ELSE [frequency |-> frequency, power |-> power]

\* The accumulator after the record of `values` has joined it.
Accumulate(acc, frequency, power, timestamp) ==
    [allData  |-> Append(acc.allData, DataPoint(frequency, power, timestamp)),
     powerSum |-> FAdd(acc.powerSum, power),
     minTimestamp |-> IF timestamp # Null
                      THEN MathMin(acc.minTimestamp, timestamp)
                      ELSE acc.minTimestamp,
     maxTimestamp |-> IF timestamp # Null
                      THEN MathMax(acc.maxTimestamp, timestamp)
                      ELSE acc.maxTimestamp]

\* ParseRow, were a row kept when either of its two numbers parses.
ParseRowEither(acc, values, cols) ==
    IF Len(values) > Max(cols.freqIndex, cols.powerIndex)
    THEN LET frequency == cleanAndParseFloat(CellAt(values, cols.freqIndex))
             power     == cleanAndParseFloat(CellAt(values, cols.powerIndex))
             timestamp == IF cols.timeIndex # -1
                          THEN parseTimestamp(CellAt(values, cols.timeIndex))
                          ELSE Null
         IN  IF ~IsNaN(frequency) \/ ~IsNaN(power)
             THEN Accumulate(acc, frequency, power, timestamp)
             ELSE acc
    ELSE acc

\* ParseRow, were the power of a row summed before the row is tested.
ParseRowSumsDropped(acc, values, cols) ==
    IF Len(values) > Max(cols.freqIndex, cols.powerIndex)
    THEN LET frequency == cleanAndParseFloat(CellAt(values, cols.freqIndex))
             power     == cleanAndParseFloat(CellAt(values, cols.powerIndex))
             timestamp == IF cols.timeIndex # -1
                          THEN parseTimestamp(CellAt(values, cols.timeIndex))
                          ELSE Null
         IN  IF ~IsNaN(frequency) /\ ~IsNaN(power)
             THEN Accumulate(acc, frequency, power, timestamp)
             ELSE IF ~IsNaN(power)
             THEN [acc EXCEPT !.powerSum = FAdd(acc.powerSum, power)]
             ELSE acc
    ELSE acc

\* ParseRow, were the timestamp bounds updated before the row is tested.
ParseRowTimeOfDropped(acc, values, cols) ==
    IF Len(values) > Max(cols.freqIndex, cols.powerIndex)
    THEN LET frequency == cleanAndParseFloat(CellAt(values, cols.freqIndex))
             power     == cleanAndParseFloat(CellAt(values, cols.powerIndex))
             timestamp == IF cols.timeIndex # -1
                          THEN parseTimestamp(CellAt(values, cols.timeIndex))
                          ELSE Null
         IN  IF ~IsNaN(frequency) /\ ~IsNaN(power)
             THEN Accumulate(acc, frequency, power, timestamp)
             ELSE IF timestamp # Null
             THEN [acc EXCEPT !.minTimestamp = MathMin(acc.minTimestamp, timestamp),
                              !.maxTimestamp = MathMax(acc.maxTimestamp, timestamp)]
             ELSE acc
    ELSE acc

\* One pass of the row loop: the record of a line joins allData when both its
\* frequency and its power are not NaN.
ParseRow(acc, values, cols) ==
    IF Len(values) > Max(cols.freqIndex, cols.powerIndex)
    THEN LET frequency == cleanAndParseFloat(CellAt(values, cols.freqIndex))
             power     == cleanAndParseFloat(CellAt(values, cols.powerIndex))
             timestamp == IF cols.timeIndex # -1
                          THEN parseTimestamp(CellAt(values, cols.timeIndex))
                          ELSE Null
         IN  IF ~IsNaN(frequency) /\ ~IsNaN(power)
             THEN Accumulate(acc, frequency, power, timestamp)
             ELSE acc
    ELSE acc

\* The row loop over the first n data lines.
RECURSIVE ParseRows(_, _, _, _)
ParseRows(dataLines, n, delimiter, cols) ==
    IF n = 0
    THEN [allData |-> <<>>, powerSum |-> Num(0),
          minTimestamp |-> PosInf, maxTimestamp |-> NegInf]
    ELSE ParseRow(ParseRows(dataLines, n - 1, delimiter, cols),
                  parseCsvRow(dataLines[n], delimiter), cols)

\* the length of each sample of the report
SampleSize == 10

\* the rows of a ColumnDetectionError's sampleData
ErrorSampleSize == 5

\* CmpPowerDesc with its operands exchanged: ascending power.
CmpPowerAsc(a, b) == CmpSign(FSub(a.power, b.power))

CmpPowerDesc(a, b) == CmpSign(FSub(b.power, a.power))

CmpFreqAsc(a, b) == CmpSign(FSub(a.frequency, b.frequency))

sortedByPower(allData) ==
    StableSort(allData, [j, i \in DOMAIN allData |-> CmpPowerDesc(allData[j], allData[i])])

\* sortedByFreq, were it sorted with the comparator of sortedByPower.
sortedByFreqAsPower(allData) ==
    StableSort(allData, [j, i \in DOMAIN allData |-> CmpPowerDesc(allData[j], allData[i])])

sortedByFreq(allData) ==
    StableSort(allData, [j, i \in DOMAIN allData |-> CmpFreqAsc(allData[j], allData[i])])

Stats(acc) ==
    LET byPower == sortedByPower(acc.allData)
        byFreq  == sortedByFreq(acc.allData)
    IN  [frequency |-> [min |-> byFreq[1].frequency,
                        max |-> byFreq[Len(byFreq)].frequency],
         power |-> [min |-> byPower[Len(byPower)].power,
                    max |-> byPower[1].power,
                    avg |-> FDiv(acc.powerSum, Len(acc.allData))]]

peakPowerRows(allData) == Take(sortedByPower(allData), SampleSize)

firstRows(allData) == Take(allData, SampleSize)

\* lastRows, were it sliced as firstRows is.
lastRowsFromStart(allData) == Take(allData, SampleSize)

lastRows(allData) == TakeLast(allData, SampleSize)

Samples(allData) ==
    [firstRows |-> firstRows(allData),
     lastRows |-> lastRows(allData),
     peakPowerRows |-> peakPowerRows(allData)]

\* report.timeStats is set when both bounds are finite.
HasTimeStats(acc) == IsFinite(acc.minTimestamp) /\ IsFinite(acc.maxTimestamp)

TimeStats(acc) ==
    [start |-> acc.minTimestamp,
     end |-> acc.maxTimestamp,
     durationSeconds |-> FDiv(FSub(acc.maxTimestamp, acc.minTimestamp), 1000)]

HeaderTexts(headerValues) == [i \in 1..Len(headerValues) |-> headerValues[i].text]

CellTexts(values) == [i \in 1..Len(values) |-> values[i].text]

BuildReport(file, parts, acc) ==
    LET report ==
            [fileName    |-> IF file.isFile THEN file.name ELSE "File Segment",
             rowCount    |-> Len(parts.dataLines),
             columnCount |-> Len(parts.headerValues),
             headers     |-> HeaderTexts(parts.headerValues),
             stats       |-> Stats(acc),
             samples     |-> Samples(acc.allData)]
    IN  IF HasTimeStats(acc)
        THEN report @@ ("timeStats" :> TimeStats(acc))
        ELSE report

\* The three ways the promise settles.
Resolved(report) == [kind |-> "report", report |-> report]

GenericError(message) == [kind |-> "Error", message |-> message]

ColumnDetectionError(message, headers, sampleData) ==
    [kind |-> "ColumnDetectionError", message |-> message,
     headers |-> headers, sampleData |-> sampleData]

MsgEmptyFile == "File is empty or could not be read."

MsgNoLines == "File must contain at least one data row."

MsgNoRelevantLines == "No valid data rows found."

MsgNoColumns == "Could not automatically detect Frequency and Power columns."

MsgHeaderOnly == "File contains a header but no data rows."

MsgNoValidData ==
    "No valid numerical data found. Please ensure columns are correctly formatted and delimited (e.g., comma, space, tab)."

MsgReadFailed == "Failed to read the file."

\* SampleData, were the sample as long as the samples of a report.
SampleDataOfTen(dataLines, delimiter) ==
    LET sample == Take(dataLines, SampleSize)
    IN  [i \in 1..Len(sample) |-> CellTexts(parseCsvRow(sample[i], delimiter))]

\* dataLines.slice(0, 5).map(line => parseCsvRow(line))
SampleData(dataLines, delimiter) ==
    LET sample == Take(dataLines, ErrorSampleSize)
    IN  [i \in 1..Len(sample) |-> CellTexts(parseCsvRow(sample[i], delimiter))]

\* The stages after the header: column roles, the row loop and the report.
AnalyzeData(file, options, parts, delimiter) ==
    LET cols == ResolveColumns(options, parts.headerValues)
    IN  IF cols.freqIndex = -1 \/ cols.powerIndex = -1
        THEN ColumnDetectionError(MsgNoColumns, HeaderTexts(parts.headerValues),
                                  SampleData(parts.dataLines, delimiter))
        ELSE IF Len(parts.dataLines) = 0
        THEN GenericError(MsgHeaderOnly)
        ELSE LET acc == ParseRows(parts.dataLines, Len(parts.dataLines), delimiter, cols)
             IN  IF Len(acc.allData) = 0
                 THEN GenericError(MsgNoValidData)
                 ELSE Resolved(BuildReport(file, parts, acc))

\* ParseText, were the first relevant line taken for data whenever the caller
\* names the frequency and the power column.
ParseTextHeaderByOptions(file, options) ==
    IF Len(file.text) = 0
    THEN GenericError(MsgEmptyFile)
    ELSE LET lines == NonBlankLines(file.text)
         IN  IF Len(lines) < 1
             THEN GenericError(MsgNoLines)
             ELSE LET delimiter == DelimiterOf(lines)
                      relevantLines == Drop(lines, dataStartIndex(lines, delimiter))
                  IN  IF Len(relevantLines) < 1
                      THEN GenericError(MsgNoRelevantLines)
                      ELSE IF InferenceRuns(options)
                      THEN AnalyzeData(file, options, SplitHeader(lines, delimiter),
                                       delimiter)
                      ELSE AnalyzeData(file, options,
                               [headerValues |->
                                    [i \in 1..Len(parseCsvRow(relevantLines[1], delimiter))
                                        |-> SyntheticHeader(i)],
                                dataLines |-> relevantLines],
                               delimiter)

\* reader.onload: what the promise settles with for the text read.
ParseText(file, options) ==
    IF Len(file.text) = 0
    THEN GenericError(MsgEmptyFile)
    ELSE LET lines == NonBlankLines(file.text)
         IN  IF Len(lines) < 1
             THEN GenericError(MsgNoLines)
             ELSE LET delimiter == DelimiterOf(lines)
                  IN  IF Len(Drop(lines, dataStartIndex(lines, delimiter))) < 1
                      THEN GenericError(MsgNoRelevantLines)
                      ELSE AnalyzeData(file, options, SplitHeader(lines, delimiter),
                                       delimiter)

(***************************************************************************)
(* The inputs of the checked instances.                                    *)
(***************************************************************************)
N(t, v) == NumAtom(t, Num(v))

HdrKnown == <<HFrequency, HPower, HTime>>

HdrUnknown == <<HA, HB, HC>>

HdrUnits == <<HFreqMHz, HPowerDbm>>

\* a retained row with an epoch-seconds timestamp
RowA == <<N("100", 100), N("-70", -70), EpochSec>>

\* a retained row of higher power, a minute later
RowB == <<N("200", 200), N("-65", -65), EpochSecLater>>

\* a retained row that ties RowA on power and has no parseable timestamp
RowC == <<N("150", 150), N("-70", -70), NotAvailable>>

\* a row without a frequency, dropped, that carries a timestamp
RowD == <<NotAvailable, N("-40", -40), EpochMs>>

\* a row whose frequency overflows, with an empty timestamp cell
RowE == <<Overflow, N("-90", -90), EmptyAtom>>

\* a row of two cells, its power unit-suffixed
RowF == <<N("300", 300), Minus70dBm>>

\* a row without a power, dropped, with an ISO timestamp
RowG == <<N("100", 100), NotAvailable, IsoDate>>

\* a row of two cells in GHz and in mW
RowH == <<TwoGHz, HundredMilliwatts>>

RowKinds == {RowA, RowB, RowC, RowD, RowE, RowF, RowG}

LongRowKinds == {RowA, RowB, RowC, RowD}

\* the data rows of a short input, and of a long one
MaxRows == 2

MaxPattern == 3

MaxLongRows == 11

\* All sequences over S of length 0..n.
SeqsUpTo(S, n) == UNION {[1..k -> S] : k \in 0..n}

\* The first n rows of `pattern` repeated.
Cycle(pattern, n) == [i \in 1..n |-> pattern[((i - 1) % Len(pattern)) + 1]]

\* The text with the header `hdr` (<<>> for none) and the rows `rows`.
TextOfRows(sep, hdr, rows) ==
    (IF Len(hdr) = 0 THEN <<>> ELSE <<Row(sep, hdr)>>)
        \o [i \in 1..Len(rows) |-> Row(sep, rows[i])]

CsvFile(text) == [name |-> "capture.csv", isFile |-> TRUE, text |-> text]

BlankLine == <<Tok(EmptyAtom, "")>>

ShortTexts ==
    {TextOfRows(",", hdr, rows) :
        hdr \in {<<>>, HdrKnown, HdrUnknown, HdrUnits}, rows \in SeqsUpTo(RowKinds, MaxRows)}
    \cup {<<BlankLine>>, <<BlankLine, BlankLine>>, <<BlankLine, Row(",", HdrUnknown), BlankLine>>}
    \cup {TextOfRows(" ", <<>>, rows) : rows \in SeqsUpTo({RowA, RowB}, MaxRows)}

LongTexts ==
    {TextOfRows(",", hdr, Cycle(pattern, n)) :
        hdr \in {<<>>, HdrKnown, HdrUnknown},
        pattern \in SeqsUpTo(LongRowKinds, MaxPattern) \ {<<>>},
        n \in 0..MaxLongRows}

\* two reports, a ColumnDetectionError unless the columns are named, and an Error
RepeatTexts ==
    {TextOfRows(",", HdrKnown, <<RowA, RowB>>),
     TextOfRows(",", HdrUnits, <<RowF, RowH>>),
     TextOfRows(",", HdrUnknown, <<RowA, RowD>>),
     TextOfRows(",", HdrKnown, <<RowD>>)}

\* the 0-based column indices a caller may name
ColumnIndices == 0..(Len(HdrKnown) - 1)

OptionKeys == {"manualFreqIndex", "manualPowerIndex", "manualTimeIndex"}

\* every ParseOptions: any of the three indices given or left out
AllOptions == UNION {[keys -> ColumnIndices] : keys \in SUBSET OptionKeys}

NoOptions == [k \in {} |-> 0]

LongOptions ==
    {NoOptions,
     [k \in OptionKeys |->
        CASE k = "manualFreqIndex" -> 0 [] k = "manualPowerIndex" -> 1 [] OTHER -> 2]}

\* Headers that score for two roles at once.
HSignalBand == WordAtom("Signal Band", "signal band", {"signal", "band"})

HMhzDbm == WordAtom("MHz dBm", "mhz dbm", {"mhz", "hz", "dbm", "db"})

HEpochFreq == WordAtom("Epoch Freq", "epoch freq", {"epoch", "freq"})

HeaderKinds == {HFrequency, HPower, HTime, HFreqMHz, HSignalBand, HMhzDbm, HEpochFreq, HA}

\* the columns of an input of varied headers
MaxHeaders == 3

\* a data row of n cells
RowOfWidth(n) ==
    [i \in 1..n |-> CASE i = 1 -> N("100", 100)
                      [] i = 2 -> N("-70", -70)
                      [] i = 3 -> EpochSec
                      [] OTHER -> N("5", 5)]

\* Inputs of one header line over the header kinds and one data row.
TextsOfHeaders(n) ==
    {TextOfRows(",", hdr, <<RowOfWidth(Len(hdr))>>) :
        hdr \in UNION {[1..k -> HeaderKinds] : k \in 2..n}}

\* Lines of two or three numbers under one separator or under two.
LineComma == <<Tok(N("100", 100), ","), Tok(N("-70", -70), "")>>

LineSemicolon == <<Tok(N("100", 100), ";"), Tok(N("-70", -70), "")>>

LineTab == <<Tok(N("100", 100), "\t"), Tok(N("-70", -70), "")>>

LineSpace == <<Tok(N("100", 100), " "), Tok(N("-70", -70), "")>>

\* 100,-70;5
LineBoth == <<Tok(N("100", 100), ","), Tok(N("-70", -70), ";"), Tok(N("5", 5), "")>>

\* 100,-70,3;5
LineBothThree ==
    <<Tok(N("100", 100), ","), Tok(N("-70", -70), ","), Tok(N("3", 3), ";"),
      Tok(N("5", 5), "")>>

\* how many lines of a kind a mixed input holds
MaxCopies == 4

Copies(line, n) == [i \in 1..n |-> line]

\* Inputs whose lines do not all hold the same separator.
MixedTexts ==
    {Copies(LineComma, a) \o Copies(LineSemicolon, b) \o Copies(LineSpace, c)
        \o Copies(LineBoth, d) \o Copies(LineBothThree, e) \o Copies(LineTab, f) :
        a, b, c \in 0..MaxCopies, d \in 0..3, e, f \in 0..1} \ {<<>>}

\* "1000000000000": the threshold itself
EpochAtThreshold == NumAtom("1000000000000", Norm(10 ^ 6, 0))

\* The timestamp cell of a line as its tokens: epoch seconds, a minute later,
\* epoch milliseconds, the threshold, "N/A", an empty cell, an ISO date-time,
\* "1,700,000,000" (thousands separators), and no cell at all.
TsSec == <<Tok(EpochSec, "")>>

TsSecLater == <<Tok(EpochSecLater, "")>>

TsMs == <<Tok(EpochMs, "")>>

TsThreshold == <<Tok(EpochAtThreshold, "")>>

TsNotAvailable == <<Tok(NotAvailable, "")>>

TsEmpty == <<Tok(EmptyAtom, "")>>

TsIso == <<Tok(IsoDate, "")>>

TsGrouped ==
    <<Tok(N("1", 1), ","), Tok(N("700", 700), ","), Tok(N("000", 0), ","),
      Tok(N("000", 0), "")>>

TsMissing == <<>>

TimeCells ==
    {TsSec, TsSecLater, TsMs, TsThreshold, TsNotAvailable, TsEmpty, TsIso,
     TsGrouped, TsMissing}

\* the frequency and the power of the i-th line of a timestamped input
FreqCells == <<N("100", 100), N("200", 200), N("300", 300), N("400", 400)>>

PowerCells == <<N("-70", -70), N("-65", -65), N("-80", -80), N("-75", -75)>>

\* The i-th line, semicolon-delimited, with the timestamp cell `ts`.
TimeLine(i, ts) ==
    LET k == ((i - 1) % Len(FreqCells)) + 1
    IN  IF Len(ts) = 0
        THEN <<Tok(FreqCells[k], ";"), Tok(PowerCells[k], "")>>
        ELSE <<Tok(FreqCells[k], ";"), Tok(PowerCells[k], ";")>> \o ts

\* the data lines of a timestamped input
MaxTimeRows == 3

\* Inputs under the header Frequency;Power;Time whose lines differ in their
\* timestamp cell.
TimeTexts(rows) ==
    UNION {{<<Row(";", HdrKnown)>> \o [i \in 1..n |-> TimeLine(i, cells[i])] :
                cells \in [1..n -> TimeCells]} : n \in 1..rows}

(***************************************************************************)
(* The state machine: one invocation at a time.                            *)
(*   pc       "idle", "reading" (readAsText under way), "loaded" (onload   *)
(*            ran and settled the promise), "failed" (onerror rejected it) *)
(*   file     the File handed to the invocation                            *)
(*   options  its ParseOptions                                             *)
(*   outcome  what the promise settled with                                *)
(*   settled  history: the earlier invocations whose text was read, each   *)
(*            with the text, the options and what its promise settled with *)
(***************************************************************************)
VARIABLES pc, file, options, outcome, settled

(***************************************************************************)
(* The upload panel (FileUpload) and the state the application keeps for   *)
(* it.  Of an invocation the panel sees the bytes handed over and the kind *)
(* of outcome, so that is what is kept of it here.                         *)
(*   uploadedFile    the File chosen, NoUpload for null                    *)
(*   isLargeFile     the panel's flag                                      *)
(*   analysisReport  whether a report is held                              *)
(*   analysisError   the kind of the error held, "none" for null           *)
(*   manual          the three column selects, "" for none                 *)
(*   calls           the invocations whose promise has not settled         *)
(***************************************************************************)
VARIABLES uploadedFile, isLargeFile, analysisReport, analysisError, manual, calls

uploadVars == <<uploadedFile, isLargeFile, analysisReport, analysisError, manual, calls>>

(***************************************************************************)
(* The application (App) around the panel and the scenario generator.      *)
(*   params          the SimulationParams of the controls                  *)
(*   mode            'generate' or 'analyze'                               *)
(*   isLoading       the flag that disables the run button                 *)
(*   analysisResult  the result shown, NoResult for null                   *)
(*   history         the HistoryItems, as kept in the state and saved      *)
(*   timers          the timeouts of handleRunAnalysis not yet fired       *)
(*   clock           the instants at which items were made so far          *)
(*   generated       history: the calls of generateDeceptionScenario, each *)
(*                   with its arguments and what it returned               *)
(***************************************************************************)
VARIABLES params, mode, isLoading, analysisResult, history, timers, clock, generated

appVars == <<params, mode, isLoading, analysisResult, history, timers, clock, generated>>

\* what lies outside the invocation under way
others == <<settled, uploadVars, appVars>>

vars == <<pc, file, options, outcome, others>>

NoFile == CsvFile(<<>>)

NoOutcome == [kind |-> "none"]

NoUpload == [isNull |-> TRUE]

NoSelection == [manualFreqIndex |-> "", manualPowerIndex |-> "", manualTimeIndex |-> ""]

\* constants.ts; the fields of the environment are in the record itself
INITIAL_SIMULATION_PARAMS ==
    [type |-> "Urban", propagationModel |-> "Hata", atmosphericCondition |-> "Clear",
     interference |-> "Low", deceptionTarget |-> "SIMULATE_GPS_SPOOFING", timesteps |-> 5]

NoResult == [isNull |-> TRUE]

Init ==
    /\ pc = "idle"
    /\ file = NoFile
    /\ options = NoOptions
    /\ outcome = NoOutcome
    /\ settled = {}
    /\ uploadedFile = NoUpload
    /\ isLargeFile = FALSE
    /\ analysisReport = FALSE
    /\ analysisError = "none"
    /\ manual = NoSelection
    /\ calls = <<>>
    /\ params = INITIAL_SIMULATION_PARAMS
    /\ mode = "generate"
    /\ isLoading = FALSE
    /\ analysisResult = NoResult
    /\ history = <<>>
    /\ timers = <<>>
    /\ clock = 0
    /\ generated = {}

\* parseAndAnalyzeCsv(file, options): a reader is made and readAsText started.
Call(f, o) ==
    /\ pc = "idle"
    /\ pc' = "reading"
    /\ file' = f
    /\ options' = o
    /\ outcome' = NoOutcome
    /\ UNCHANGED others

\* reader.onload, were the data lines of an earlier invocation on another text
\* still held and parsed along with this one's.
OnLoadCarriesLines ==
    /\ pc = "reading"
    /\ pc' = "loaded"
    /\ outcome' =
          IF \E s \in settled : s.text # file.text
          THEN LET earlier == CHOOSE s \in settled : s.text # file.text
               IN  ParseText([file EXCEPT !.text = file.text \o Tail(earlier.text)],
                             options)
          ELSE ParseText(file, options)
    /\ UNCHANGED <<file, options, others>>

\* reader.onload
OnLoad ==
    /\ pc = "reading"
    /\ pc' = "loaded"
    /\ outcome' = ParseText(file, options)
    /\ UNCHANGED <<file, options, others>>

\* reader.onerror
OnError ==
    /\ pc = "reading"
    /\ pc' = "failed"
    /\ outcome' = GenericError(MsgReadFailed)
    /\ UNCHANGED <<file, options, others>>

\* The caller's await returns or throws; nothing of the invocation is kept.
Consume ==
    /\ pc \in {"loaded", "failed"}
    /\ pc' = "idle"
    /\ file' = NoFile
    /\ options' = NoOptions
    /\ outcome' = NoOutcome
    /\ UNCHANGED others

\* The caller's await returns or throws as in Consume; the history takes note of
\* the invocation when its text was read.
ConsumeNoted ==
    /\ pc \in {"loaded", "failed"}
    /\ pc' = "idle"
    /\ file' = NoFile
    /\ options' = NoOptions
    /\ outcome' = NoOutcome
    /\ settled' = IF pc = "loaded"
                  THEN settled \cup {[text |-> file.text, options |-> options,
                                      outcome |-> outcome]}
                  ELSE settled
    /\ UNCHANGED <<uploadVars, appVars>>

CallShort ==
    /\ pc = "idle"
    /\ \E t \in ShortTexts, o \in AllOptions : Call(CsvFile(t), o)

CallLong ==
    /\ pc = "idle"
    /\ \E t \in LongTexts, o \in LongOptions : Call(CsvFile(t), o)

Next == CallShort \/ OnLoad \/ OnError \/ Consume

Spec == Init /\ [][Next]_vars

NextLong == CallLong \/ OnLoad \/ OnError \/ Consume

SpecLong == Init /\ [][NextLong]_vars

\* Invocations over a few inputs, each liable to be repeated.
CallRepeat ==
    /\ pc = "idle"
    /\ \E t \in RepeatTexts, o \in LongOptions : Call(CsvFile(t), o)

NextRepeat == CallRepeat \/ OnLoad \/ OnError \/ ConsumeNoted

SpecRepeat == Init /\ [][NextRepeat]_vars

\* Invocations on the inputs of varied headers, the column roles inferred.
CallHeaders ==
    /\ pc = "idle"
    /\ \E t \in TextsOfHeaders(MaxHeaders) : Call(CsvFile(t), NoOptions)

NextHeaders == CallHeaders \/ OnLoad \/ OnError \/ Consume

SpecHeaders == Init /\ [][NextHeaders]_vars

\* Invocations on the inputs of mixed separators.
CallMixed ==
    /\ pc = "idle"
    /\ \E t \in MixedTexts, o \in LongOptions : Call(CsvFile(t), o)

NextMixed == CallMixed \/ OnLoad \/ OnError \/ Consume

SpecMixed == Init /\ [][NextMixed]_vars

(***************************************************************************)
(* The upload panel.                                                       *)
(***************************************************************************)
MAX_FILE_SIZE_BYTES == 50 * 1024 * 1024

\* the sizes of the files chosen: small ones, one at the limit, large ones
UploadSizes ==
    {1, MAX_FILE_SIZE_BYTES, MAX_FILE_SIZE_BYTES + 1, 3 * MAX_FILE_SIZE_BYTES + 1}

\* the invocations that may be pending together
MaxPending == 2

\* the values of the options of a column select
SelectValues == {"0", "1", "2"}

\* blob.slice(start, end) of a blob of `size` bytes, and whether options go with it
Slice(size, start, end, withOptions) ==
    [of |-> size, start |-> Min(start, size), end |-> Max(Min(start, size), Min(end, size)),
     withOptions |-> withOptions]

\* which panel renderContent shows
ColumnPanelShown == analysisError = "ColumnDetectionError"

SegmentPanelShown ==
    /\ analysisError = "none" /\ ~analysisReport
    /\ uploadedFile # NoUpload /\ isLargeFile

DropZoneShown ==
    /\ analysisError = "none" /\ ~analysisReport
    /\ ~(uploadedFile # NoUpload /\ isLargeFile)

\* handleRunFileAnalysis up to its await: report and error are cleared, which
\* makes the panel's effect reset the selects, and the invocation is pending.
RunFileAnalysis(blob) ==
    /\ Len(calls) < MaxPending
    /\ analysisReport' = FALSE
    /\ analysisError' = "none"
    /\ manual' = NoSelection
    /\ calls' = Append(calls, blob)

\* A file is chosen or dropped: handleFileChange, then the panel's effects.
SelectFile(size) ==
    /\ DropZoneShown
    /\ uploadedFile' = [size |-> size]
    /\ isLargeFile' = (size > MAX_FILE_SIZE_BYTES)
    /\ IF size <= MAX_FILE_SIZE_BYTES
       THEN RunFileAnalysis(Slice(size, 0, size, FALSE))
       ELSE /\ analysisReport' = FALSE
            /\ analysisError' = "none"
            /\ manual' = NoSelection
            /\ UNCHANGED calls
    /\ UNCHANGED <<pc, file, options, outcome, settled, appVars>>

\* handleClearFile: handleFileChange(null), then the panel's effects.
ClearFile ==
    /\ ~DropZoneShown
    /\ uploadedFile' = NoUpload
    /\ isLargeFile' = FALSE
    /\ analysisReport' = FALSE
    /\ analysisError' = "none"
    /\ manual' = NoSelection
    /\ UNCHANGED <<calls, pc, file, options, outcome, settled, appVars>>

\* the byte range of a segment of a file of `size` bytes
SegmentRange(segment, size) ==
    CASE segment = "start" ->
            [start |-> 0, end |-> MAX_FILE_SIZE_BYTES]
      [] segment = "middle" ->
            LET start == Max(0, (size \div 2) - (MAX_FILE_SIZE_BYTES \div 2))
            IN  [start |-> start, end |-> start + MAX_FILE_SIZE_BYTES]
      [] segment = "end" ->
            [start |-> Max(0, size - MAX_FILE_SIZE_BYTES), end |-> size]

\* handleAnalyzeSegment
AnalyzeSegment(segment) ==
    /\ SegmentPanelShown
    /\ LET range == SegmentRange(segment, uploadedFile.size)
       IN  RunFileAnalysis(Slice(uploadedFile.size, range.start, range.end, FALSE))
    /\ UNCHANGED <<uploadedFile, isLargeFile, pc, file, options, outcome, settled, appVars>>

\* one of the three selects is set
SelectColumn(key, value) ==
    /\ ColumnPanelShown
    /\ manual' = [manual EXCEPT ![key] = value]
    /\ UNCHANGED <<uploadedFile, isLargeFile, analysisReport, analysisError, calls,
                   pc, file, options, outcome, settled, appVars>>

hasDuplicates ==
    \E k1, k2 \in DOMAIN manual : k1 # k2 /\ manual[k1] # "" /\ manual[k1] = manual[k2]

\* handleConfirmSelection, the button enabled
ConfirmSelection ==
    /\ ColumnPanelShown
    /\ manual.manualFreqIndex # "" /\ manual.manualPowerIndex # "" /\ ~hasDuplicates
    /\ uploadedFile # NoUpload
    /\ RunFileAnalysis(Slice(uploadedFile.size, 0, uploadedFile.size, TRUE))
    /\ UNCHANGED <<uploadedFile, isLargeFile, pc, file, options, outcome, settled, appVars>>

\* the kinds of outcome of an invocation: no ColumnDetectionError when the
\* frequency and the power index go with it
OutcomeKinds(call) ==
    IF call.withOptions THEN {"report", "Error"}
    ELSE {"report", "ColumnDetectionError", "Error"}

\* handleRunFileAnalysis after its await, for the i-th pending invocation
Settle(i, kind) ==
    /\ calls' = SubSeq(calls, 1, i - 1) \o SubSeq(calls, i + 1, Len(calls))
    /\ IF kind = "report"
       THEN /\ analysisReport' = TRUE
            /\ UNCHANGED <<analysisError, manual>>
       ELSE /\ analysisReport' = FALSE
            /\ analysisError' = kind
            /\ manual' = IF uploadedFile = NoUpload THEN NoSelection ELSE manual
    /\ UNCHANGED <<uploadedFile, isLargeFile, pc, file, options, outcome, settled, appVars>>

SettleSome == \E i \in DOMAIN calls : \E kind \in OutcomeKinds(calls[i]) : Settle(i, kind)

NextUpload ==
    \/ \E size \in UploadSizes : SelectFile(size)
    \/ ClearFile
    \/ \E segment \in {"start", "middle", "end"} : AnalyzeSegment(segment)
    \/ \E key \in DOMAIN NoSelection, value \in SelectValues : SelectColumn(key, value)
    \/ ConfirmSelection
    \/ SettleSome

SpecUpload == Init /\ [][NextUpload]_vars

(***************************************************************************)
(* The scenario generator (tfService).  Powers are in tenths of a dB,      *)
(* frequencies in hundredths of a MHz.  What tf.randomNormal and           *)
(* Math.random return is not fixed by the arguments of the call: it is a   *)
(* draw, one per timestep, chosen by the environment.                      *)
(***************************************************************************)
THERMAL_NOISE_BASELINE == -1050

\* mean_offset of ITU_R_NOISE_FIGURES
ITU_R_NOISE_FIGURES(environment) ==
    CASE environment = "Urban" -> 200
      [] environment = "Suburban" -> 100
      [] environment = "Rural" -> 20
      [] environment = "Maritime" -> 50
      [] environment = "Airborne" -> -20

\* gain_db of AWGN_INTERFERENCE_SCALERS
AWGN_INTERFERENCE_SCALERS(interference) ==
    CASE interference = "Low" -> 0
      [] interference = "Medium" -> 50
      [] interference = "High" -> 150
      [] interference = "Severe" -> 250

ATMOSPHERIC_LOSS_DB(atmCond) ==
    CASE atmCond = "Clear" -> 0
      [] atmCond = "Rainy" -> 25
      [] atmCond = "Foggy" -> 5
      [] atmCond = "Snow" -> 15

\* 10 * n * log10(100) * 0.5, n of PATH_LOSS_EXPONENTS
HalfPathLoss(propModel) ==
    CASE propModel = "FreeSpace" -> 200
      [] propModel = "Hata" -> 350
      [] propModel = "LogDistance" -> 300

\* the points of the frequency axis
NumPoints == 11

Axis == 0 .. (NumPoints - 1)

\* the emitters of the decoy mesh
NumDevices == 5

\* the shapes a sample of tf.randomNormal takes about its mean
QuietShape == [i \in Axis |-> 0]

RoughShape == [i \in Axis |-> IF i % 2 = 0 THEN -60 ELSE 60]

\* a draw of one timestep: the noise floor's sample, the jammer's sample and
\* what Math.random gives the five emitters
QuietDraw ==
    [noise |-> QuietShape, entropy |-> QuietShape, fluctuation |-> [d \in 1 .. NumDevices |-> 0]]

\* the draws of a step: the quiet one and those off it in one sample
StepDraws ==
    {QuietDraw,
     [QuietDraw EXCEPT !.noise = RoughShape],
     [QuietDraw EXCEPT !.entropy = RoughShape],
     [QuietDraw EXCEPT !.fluctuation = [d \in 1 .. NumDevices |-> 40]]}

\* the draws of a call of `timesteps` steps: quiet after the first step
DrawsOf(timesteps) ==
    {[t \in 0 .. (timesteps - 1) |-> IF t = 0 THEN d ELSE QuietDraw] : d \in StepDraws}

\* values[1] + ... + values[n]
RECURSIVE SumUpTo(_, _)
SumUpTo(values, n) == IF n = 0 THEN 0 ELSE values[n] + SumUpTo(values, n - 1)

\* tf.linspace(fStart, fEnd, numPoints)[i], times numPoints - 1
ScaledFreq(fStart, fEnd, i) == fStart * (NumPoints - 1) + i * (fEnd - fStart)

Abs(x) == IF x < 0 THEN -x ELSE x

\* tf.less(tf.abs(tf.sub(freqAxis, centerFreq)), bw) at point i
InBand(fStart, fEnd, centerFreq, bw, i) ==
    Abs(ScaledFreq(fStart, fEnd, i) - centerFreq * (NumPoints - 1)) < bw * (NumPoints - 1)

generateNoiseFloor(environment, interference, shape) ==
    LET mu == THERMAL_NOISE_BASELINE + ITU_R_NOISE_FIGURES(environment)
                  + AWGN_INTERFERENCE_SCALERS(interference)
    IN  [i \in Axis |-> mu + shape[i]]

calculateReceivedPower(txPower, propModel, atmCond) ==
    txPower - HalfPathLoss(propModel) - ATMOSPHERIC_LOSS_DB(atmCond)

\* Math.sin(step * (i + 1)) * 10 for device i + 1, in hundredths
HopOffset(step, device) ==
    CASE step = 0 -> 0
      [] step = 1 -> <<841, 909, 141, -757, -959>>[device]
      [] step = 2 -> <<909, -757, -279, 989, -544>>[device]
      [] step = 3 -> <<141, -279, 412, -537, 650>>[device]
      [] step = 4 -> <<-757, 989, -537, -288, 913>>[device]

NoAttack == [isNull |-> TRUE]

Attack(tensor, class) == [isNull |-> FALSE, tensor |-> tensor, class |-> class]

generateThreatSignature(target, fStart, fEnd, p, step, draw) ==
    CASE target = "SIMULATE_GPS_SPOOFING" ->
            LET rxPower == calculateReceivedPower(-600, p.propagationModel,
                                                  p.atmosphericCondition)
            IN  Attack([i \in Axis |-> IF InBand(fStart, fEnd, 157542, 200, i)
                                       THEN rxPower ELSE 0],
                       "GPS SPOOFING")
      [] target = "SIMULATE_ROGUE_WIFI_AP" ->
            IF step % 2 # 0 THEN NoAttack
            ELSE LET rxPower == calculateReceivedPower(-300, p.propagationModel,
                                                       p.atmosphericCondition)
                 IN  Attack([i \in Axis |-> IF InBand(fStart, fEnd, 241200, 1100, i)
                                            THEN rxPower ELSE 0],
                            "ROGUE AP")
      [] target = "JAM_C2_DRONE_LINK" ->
            Attack([i \in Axis |-> IF InBand(fStart, fEnd, 91500, 1500, i)
                                   THEN -200 + draw.entropy[i] ELSE 0],
                   "C2 JAMMING")
      [] target = "GENERATE_DECOY_IOT_TRAFFIC" ->
            Attack([i \in Axis |->
                      SumUpTo([d \in 1 .. NumDevices |->
                                  IF InBand(fStart, fEnd, 86800 + HopOffset(step, d), 20, i)
                                  THEN -900 + draw.fluctuation[d] ELSE 0], NumDevices)],
                   "IOT DECOY")
      [] OTHER -> NoAttack

\* the analysis content: what generateDeceptionScenario reads of a report
NoContent == [isNull |-> TRUE]

\* the spectrum bounds
SpectrumBounds(p, content) ==
    IF ~content.isNull THEN [fStart |-> content.min, fEnd |-> content.max]
    ELSE CASE p.deceptionTarget = "SIMULATE_GPS_SPOOFING" -> [fStart |-> 155000, fEnd |-> 160000]
           [] p.deceptionTarget = "SIMULATE_ROGUE_WIFI_AP" -> [fStart |-> 240000, fEnd |-> 248500]
           [] p.deceptionTarget = "JAM_C2_DRONE_LINK" -> [fStart |-> 90000, fEnd |-> 93000]
           [] p.deceptionTarget = "GENERATE_DECOY_IOT_TRAFFIC" -> [fStart |-> 86000, fEnd |-> 88000]
           [] OTHER -> [fStart |-> 80000, fEnd |-> 250000]

\* analysis mode: the noise and the signal rebuilt from the report's peaks
AnalysisPower(b, content, draw) ==
    LET noise == generateNoiseFloor("Urban", "Medium", draw.noise)
        peaks == content.peakPowerRows
    IN  [i \in Axis |->
            noise[i] + SumUpTo([k \in DOMAIN peaks |->
                                   IF InBand(b.fStart, b.fEnd, peaks[k].frequency, 100, i)
                                   THEN peaks[k].power + 1000 ELSE 0], Len(peaks))]

\* simulation mode: the superposition of the noise and the threat
SimulationPower(attack, noise) ==
    IF attack.isNull THEN noise
    ELSE [i \in Axis |-> IF attack.tensor[i] > -1200
                         THEN attack.tensor[i] + noise[i] ELSE noise[i]]

SimulationAnomalies(attack, b) ==
    IF attack.isNull THEN <<>>
    ELSE <<[description |-> [text |-> attack.class, freq |-> 0],
            frequencyStart |-> IF attack.class = "GPS SPOOFING"
                               THEN 157400 * (NumPoints - 1)
                               ELSE ScaledFreq(b.fStart, b.fEnd, 0),
            frequencyEnd |-> IF attack.class = "GPS SPOOFING"
                             THEN 157600 * (NumPoints - 1)
                             ELSE ScaledFreq(b.fStart, b.fEnd, NumPoints - 1),
            classification |-> attack.class]>>

MaxOf(power) == CHOOSE m \in {power[i] : i \in Axis} : \A i \in Axis : power[i] <= m

\* argMax: the first point of greatest power
ArgMax(power) ==
    LET m == MaxOf(power)
    IN  CHOOSE i \in Axis : power[i] = m /\ \A j \in 0 .. (i - 1) : power[j] < m

\* max > mean + 3 * sqrt(variance), the variance that of the population
ExceedsThreeSigma(power) ==
    LET sum == SumUpTo([k \in 1 .. NumPoints |-> power[k - 1]], NumPoints)
        squares == SumUpTo([k \in 1 .. NumPoints |-> power[k - 1] * power[k - 1]],
                           NumPoints)
        excess == NumPoints * MaxOf(power) - sum
    IN  excess * excess > 9 * (NumPoints * squares - sum * sum)

StatisticalAnomalies(power, b) ==
    IF ExceedsThreeSigma(power)
    THEN LET freq == ScaledFreq(b.fStart, b.fEnd, ArgMax(power))
         IN  <<[description |-> [text |-> "Energy peak", freq |-> freq],
                frequencyStart |-> freq - 50 * (NumPoints - 1),
                frequencyEnd |-> freq + 50 * (NumPoints - 1),
                classification |-> "STATISTICAL ANOMALY"]>>
    ELSE <<>>

\* the paragraph of a timestep, by what its text is made of
generateNarrative(step, anomalies, isAnalysis, p) ==
    IF isAnalysis
    THEN IF Len(anomalies) > 0
         THEN [timestep |-> step + 1, kind |-> "ALERT", at |-> anomalies[1].frequencyStart,
               type |-> p.type, about |-> anomalies[1].description]
         ELSE [timestep |-> step + 1, kind |-> "nominal", at |-> 0,
               type |-> p.type, about |-> [text |-> "", freq |-> 0]]
    ELSE IF Len(anomalies) > 0
         THEN [timestep |-> step + 1, kind |-> "injector",
               at |-> anomalies[1].frequencyStart + anomalies[1].frequencyEnd,
               type |-> p.type,
               about |-> [text |-> anomalies[1].classification, freq |-> 0]]
         ELSE [timestep |-> step + 1, kind |-> "silent", at |-> 0,
               type |-> p.type, about |-> [text |-> p.propagationModel, freq |-> 0]]

\* one turn of the loop over the timesteps
Timestep(p, content, t, draw) ==
    LET b == SpectrumBounds(p, content)
        attack == generateThreatSignature(p.deceptionTarget, b.fStart, b.fEnd, p, t, draw)
        power == IF ~content.isNull THEN AnalysisPower(b, content, draw)
                 ELSE SimulationPower(attack,
                          generateNoiseFloor(p.type, p.interference, draw.noise))
        stepAnomalies == IF ~content.isNull THEN StatisticalAnomalies(power, b)
                         ELSE SimulationAnomalies(attack, b)
    IN  [narrative |-> generateNarrative(t, stepAnomalies, ~content.isNull, p),
         spectrum |-> [k \in 1 .. NumPoints |->
                          [frequency |-> ScaledFreq(b.fStart, b.fEnd, k - 1),
                           power |-> power[k - 1]]],
         anomalies |-> stepAnomalies]

generateDeceptionScenario(p, content, draws) ==
    LET steps == [k \in 1 .. p.timesteps |-> Timestep(p, content, k - 1, draws[k - 1])]
    IN  [isNull |-> FALSE,
         scenario |-> [k \in DOMAIN steps |-> steps[k].narrative],
         visualizerData |-> [k \in DOMAIN steps |->
                                [spectrum |-> steps[k].spectrum,
                                 anomalies |-> steps[k].anomalies]]]

(***************************************************************************)
(* The application: runs, the history and what resets them.                *)
(***************************************************************************)
\* what generateDeceptionScenario reads of the report held: 100 to 200 MHz,
\* one peak of -65 dBm at 200 MHz, no timeStats
HeldReport ==
    [isNull |-> FALSE, min |-> 10000, max |-> 20000,
     peakPowerRows |-> <<[frequency |-> 20000, power |-> -650]>>]

\* the items kept when one is put in front
HistoryCarried == 49

\* the timeouts that may be pending together
MaxTimers == 2

\* the targets and the timesteps the controls are set to
SelectableTargets ==
    {"SIMULATE_GPS_SPOOFING", "SIMULATE_ROGUE_WIFI_AP", "JAM_C2_DRONE_LINK",
     "GENERATE_DECOY_IOT_TRAFFIC"}

SelectableTimesteps == {1}

isRunDisabled ==
    \/ isLoading
    \/ mode = "analyze" /\ (~analysisReport \/ analysisError # "none")

\* the effect of a change of mode to m on the state about the file and on params
ModeEffect(m, p) ==
    IF m = "generate"
    THEN /\ uploadedFile' = NoUpload
         /\ isLargeFile' = FALSE
         /\ analysisReport' = FALSE
         /\ analysisError' = "none"
         /\ manual' = NoSelection
         /\ params' = IF p.deceptionTarget = "ANALYZE_UPLOADED_DATA"
                      THEN [p EXCEPT !.deceptionTarget =
                                         INITIAL_SIMULATION_PARAMS.deceptionTarget]
                      ELSE p
    ELSE /\ params' = [p EXCEPT !.deceptionTarget = "ANALYZE_UPLOADED_DATA"]
         /\ UNCHANGED <<uploadedFile, isLargeFile, analysisReport, analysisError, manual>>

\* onModeChange
SetMode(m) ==
    /\ m # mode
    /\ mode' = m
    /\ ModeEffect(m, params)
    /\ UNCHANGED <<isLoading, analysisResult, history, timers, clock, generated>>
    /\ UNCHANGED <<calls, pc, file, options, outcome, settled>>

\* onParamsChange, one field of the controls set
SetParams(field, value) ==
    /\ field = "deceptionTarget" => mode = "generate"
    /\ params[field] # value
    /\ params' = [params EXCEPT ![field] = value]
    /\ UNCHANGED <<mode, isLoading, analysisResult, history, timers, clock, generated>>
    /\ UNCHANGED <<uploadVars, pc, file, options, outcome, settled>>

\* handleRunAnalysis up to its setTimeout, the button enabled
RunAnalysis ==
    /\ ~isRunDisabled
    /\ Len(timers) < MaxTimers
    /\ isLoading' = TRUE
    /\ analysisResult' = NoResult
    /\ timers' = Append(timers,
          [currentParams |-> IF mode = "analyze"
                             THEN [params EXCEPT !.deceptionTarget = "ANALYZE_UPLOADED_DATA"]
                             ELSE params,
           analysisContent |-> IF mode = "analyze" /\ analysisReport
                               THEN HeldReport ELSE NoContent])
    /\ UNCHANGED <<params, mode, history, clock, generated>>
    /\ UNCHANGED <<uploadVars, pc, file, options, outcome, settled>>

\* result.scenario.startsWith('**Error:'): the text opens with the heading of
\* the first timestep, or is empty
StartsWithError(scenario) == FALSE

\* the new item put in front of all the earlier ones, none dropped
PutInFrontOfAll(item, prevHistory) == <<item>> \o prevHistory

\* setHistory(prevHistory => [newHistoryItem, ...prevHistory.slice(0, 49)])
PutInFront(item, prevHistory) ==
    <<item>> \o SubSeq(prevHistory, 1, Min(HistoryCarried, Len(prevHistory)))

\* the callback of the timeout, generateDeceptionScenario drawing `draws`
TimerFires(draws) ==
    /\ timers # <<>>
    /\ LET currentParams == Head(timers).currentParams
           analysisContent == Head(timers).analysisContent
           result == generateDeceptionScenario(currentParams, analysisContent, draws)
       IN  /\ analysisResult' = result
           /\ history' = IF ~StartsWithError(result.scenario)
                         THEN PutInFront([id |-> clock + 1, params |-> currentParams,
                                          scenario |-> result.scenario,
                                          visualizerData |-> result.visualizerData],
                                         history)
                         ELSE history
           /\ generated' = generated \cup {[params |-> currentParams,
                                            content |-> analysisContent,
                                            result |-> result]}
    /\ timers' = Tail(timers)
    /\ clock' = clock + 1
    /\ isLoading' = FALSE
    /\ UNCHANGED <<params, mode>>
    /\ UNCHANGED <<uploadVars, pc, file, options, outcome, settled>>

\* handleRefresh
Refresh ==
    /\ mode' = "generate"
    /\ params' = INITIAL_SIMULATION_PARAMS
    /\ analysisResult' = NoResult
    /\ isLoading' = FALSE
    /\ uploadedFile' = NoUpload
    /\ isLargeFile' = FALSE
    /\ analysisReport' = FALSE
    /\ analysisError' = "none"
    /\ manual' = NoSelection
    /\ UNCHANGED <<history, timers, clock, generated>>
    /\ UNCHANGED <<calls, pc, file, options, outcome, settled>>

\* handleHistorySelect, were the mode left as it is.
HistorySelectKeepsMode(i) ==
    /\ i \in DOMAIN history
    /\ analysisResult' = [isNull |-> FALSE, scenario |-> history[i].scenario,
                          visualizerData |-> history[i].visualizerData]
    /\ params' = history[i].params
    /\ UNCHANGED <<mode, uploadedFile, isLargeFile, analysisReport, analysisError,
                   manual>>
    /\ UNCHANGED <<isLoading, history, timers, clock, generated>>
    /\ UNCHANGED <<calls, pc, file, options, outcome, settled>>

\* handleHistorySelect of the i-th item
HistorySelect(i) ==
    /\ i \in DOMAIN history
    /\ LET item == history[i]
           m == IF item.params.deceptionTarget = "ANALYZE_UPLOADED_DATA"
                THEN "analyze" ELSE "generate"
       IN  /\ analysisResult' = [isNull |-> FALSE, scenario |-> item.scenario,
                                 visualizerData |-> item.visualizerData]
           /\ mode' = m
           /\ IF m # mode THEN ModeEffect(m, item.params)
              ELSE /\ params' = item.params
                   /\ UNCHANGED <<uploadedFile, isLargeFile, analysisReport,
                                  analysisError, manual>>
    /\ UNCHANGED <<isLoading, history, timers, clock, generated>>
    /\ UNCHANGED <<calls, pc, file, options, outcome, settled>>

\* handleClearHistory
ClearHistory ==
    /\ history' = <<>>
    /\ UNCHANGED <<params, mode, isLoading, analysisResult, timers, clock, generated>>
    /\ UNCHANGED <<uploadVars, pc, file, options, outcome, settled>>

\* The page is loaded anew: the state is the initial one but for the history,
\* read back from localStorage, where the effect on history saved it.
Reload ==
    /\ params' = INITIAL_SIMULATION_PARAMS
    /\ mode' = "generate"
    /\ isLoading' = FALSE
    /\ analysisResult' = NoResult
    /\ timers' = <<>>
    /\ uploadedFile' = NoUpload
    /\ isLargeFile' = FALSE
    /\ analysisReport' = FALSE
    /\ analysisError' = "none"
    /\ manual' = NoSelection
    /\ calls' = <<>>
    /\ UNCHANGED <<history, clock, generated>>
    /\ UNCHANGED <<pc, file, options, outcome, settled>>

\* the runs of a session
MaxRuns == 52

MaxVariedRuns == 2

\* a small file is chosen in the panel, shown in analyze mode
ChooseSmallFile == mode = "analyze" /\ SelectFile(1)

SetSomeMode == \E m \in {"generate", "analyze"} : SetMode(m)

SetTarget == \E value \in SelectableTargets : SetParams("deceptionTarget", value)

SetTimesteps == \E value \in SelectableTimesteps : SetParams("timesteps", value)

\* the newest or the oldest item of the history is selected
SelectEnd == \E i \in {1, Len(history)} : HistorySelect(i)

\* a session of many runs, each drawing the same
RunOfMany == clock + Len(timers) < MaxRuns /\ RunAnalysis

QuietTimerFires ==
    /\ timers # <<>>
    /\ TimerFires([t \in 0 .. (Head(timers).currentParams.timesteps - 1) |-> QuietDraw])

NextHistory ==
    \/ RunOfMany
    \/ QuietTimerFires
    \/ SelectEnd
    \/ Reload
    \/ Refresh
    \/ ClearHistory

SpecHistory == Init /\ [][NextHistory]_vars

\* a session of few runs, the draws varied
RunOfFew == clock + Len(timers) < MaxVariedRuns /\ RunAnalysis

SomeTimerFires ==
    /\ timers # <<>>
    /\ \E draws \in DrawsOf(Head(timers).currentParams.timesteps) : TimerFires(draws)

\* the analysis of the file chosen ends with a report
ReportArrives == \E i \in DOMAIN calls : Settle(i, "report")

NextScenario ==
    \/ SetSomeMode
    \/ SetTarget
    \/ SetTimesteps
    \/ ChooseSmallFile
    \/ ReportArrives
    \/ RunOfFew
    \/ SomeTimerFires

SpecScenario == Init /\ [][NextScenario]_vars

\* Invocations on the timestamped inputs.
CallTimes ==
    /\ pc = "idle"
    /\ \E t \in TimeTexts(MaxTimeRows), o \in LongOptions : Call(CsvFile(t), o)

NextTimes == CallTimes \/ OnLoad \/ OnError \/ Consume

SpecTimes == Init /\ [][NextTimes]_vars

\* the target select is set to another target than the initial one
SetJamTarget == SetParams("deceptionTarget", "JAM_C2_DRONE_LINK")

\* a file is chosen while no analysis of a file is pending
ChooseFileWhenSettled == calls = <<>> /\ ChooseSmallFile

\* a run is started while no timeout is pending
RunWhenSettled == timers = <<>> /\ RunOfFew

\* any item of the history is selected
SelectAny == \E i \in DOMAIN history : HistorySelect(i)

\* A session of few runs in either mode, with selections from the history and
\* refreshes.
NextModes ==
    \/ SetSomeMode
    \/ SetJamTarget
    \/ SetTimesteps
    \/ ChooseFileWhenSettled
    \/ ReportArrives
    \/ RunWhenSettled
    \/ QuietTimerFires
    \/ SelectAny
    \/ Refresh

SpecModes == Init /\ [][NextModes]_vars

(***************************************************************************)
(* What the claims speak of, read off the current invocation's input.      *)
(***************************************************************************)
Loaded == pc = "loaded"

HasLines == Len(file.text) > 0 /\ Len(NonBlankLines(file.text)) >= 1

BothManual == {"manualFreqIndex", "manualPowerIndex"} \subseteq DOMAIN options

\* What one data line holds under the resolved columns: its two numbers, its
\* timestamp (Null without one), and whether it yields a record.
RowReading(values, cols) ==
    LET frequency == cleanAndParseFloat(CellAt(values, cols.freqIndex))
        power     == cleanAndParseFloat(CellAt(values, cols.powerIndex))
        timestamp == IF cols.timeIndex = -1 THEN Null
                     ELSE parseTimestamp(CellAt(values, cols.timeIndex))
    IN  [values |-> values, frequency |-> frequency, power |-> power,
         timestamp |-> timestamp,
         parses |-> ~IsNaN(frequency) /\ ~IsNaN(power)]

RecordOf(reading) ==
    IF reading.timestamp = Null
    THEN [frequency |-> reading.frequency, power |-> reading.power]
    ELSE [frequency |-> reading.frequency, power |-> reading.power,
          timestamp |-> reading.timestamp]

\* The current input as the claims read it: its header, its resolved columns,
\* the reading of every data line, and the retained records in file order.
Cur ==
    LET lines     == NonBlankLines(file.text)
        delimiter == DelimiterOf(lines)
        parts     == SplitHeader(lines, delimiter)
        cols      == ResolveColumns(options, parts.headerValues)
        readings  == [i \in 1..Len(parts.dataLines) |->
                         RowReading(parseCsvRow(parts.dataLines[i], delimiter), cols)]
        kept      == SelectSeq(readings, LAMBDA r : r.parses)
    IN  [lines |-> lines, headerValues |-> parts.headerValues, cols |-> cols,
         readings |-> readings,
         retained |-> [i \in 1..Len(kept) |-> RecordOf(kept[i])]]

ColumnsResolved(cols) == cols.freqIndex # -1 /\ cols.powerIndex # -1

Reported == Loaded /\ outcome.kind = "report"

RECURSIVE SumPower(_)
SumPower(records) ==
    IF Len(records) = 0 THEN Num(0)
    ELSE FAdd(SumPower(SubSeq(records, 1, Len(records) - 1)),
              records[Len(records)].power)

Count(records, r) == Cardinality({i \in DOMAIN records : records[i] = r})

Range(records) == {records[i] : i \in DOMAIN records}

IsPrefix(p, q) == Len(p) <= Len(q) /\ \A i \in DOMAIN p : p[i] = q[i]

(***************************************************************************)
(* The claims.                                                             *)
(***************************************************************************)
\* C1: when both manualFreqIndex and manualPowerIndex are supplied (zero-based
\* indices), the invocation never ends in a ColumnDetectionError: it ends in a
\* report or in a generic Error, whatever the headers are; and inference does
\* not run, so that without manualTimeIndex no header is taken for a time
\* column and the report has no timeStats.
C1_ManualIndicesNeverColumnDetectionError ==
    (pc \in {"loaded", "failed"} /\ BothManual) =>
        /\ outcome.kind \in {"report", "Error"}
        /\ (outcome.kind = "report" /\ "manualTimeIndex" \notin DOMAIN options) =>
              "timeStats" \notin DOMAIN outcome.report

\* C1's case: both indices supplied for a file whose headers inference cannot
\* place, and a report comes back.
C1_Witness ==
    /\ Reported
    /\ BothManual
    /\ LET inferred == InferColumns(Cur.headerValues)
       IN  inferred.freqIndex = -1 \/ inferred.powerIndex = -1

\* C2: without options, when inference leaves frequency or power without a
\* column, the invocation rejects with a ColumnDetectionError carrying the header
\* list and the first min(5, number of data lines) data lines split into cells.
C2_InferenceFailureCarriesHeadersAndSample ==
    (Loaded /\ DOMAIN options = {} /\ HasLines) =>
        LET cur == Cur
        IN  ~ColumnsResolved(cur.cols) =>
              /\ outcome.kind = "ColumnDetectionError"
              /\ outcome.headers = HeaderTexts(cur.headerValues)
              /\ Len(outcome.sampleData) = Min(5, Len(cur.readings))
              /\ \A i \in DOMAIN outcome.sampleData :
                    outcome.sampleData[i] = CellTexts(cur.readings[i].values)

\* C2's case: inference fails on a file of more than five data lines.
C2_Witness ==
    /\ Loaded
    /\ DOMAIN options = {}
    /\ outcome.kind = "ColumnDetectionError"
    /\ Len(outcome.sampleData) = 5
    /\ Len(Cur.readings) > 5

\* The input is one line of header names and nothing else.
HeaderOnlyInput ==
    LET lines == NonBlankLines(file.text)
    IN  /\ Len(lines) = 1
        /\ LET values == parseCsvRow(lines[1], DelimiterOf(lines))
           IN  \A j \in DOMAIN values : values[j].lex = "word"

\* C3: an input that is empty, holds only blank lines, or holds a header line
\* and no data row is rejected with a generic Error, never with a
\* ColumnDetectionError, whatever the header names are.
C3_StructuralFailureIsGenericError ==
    (Loaded /\ (~HasLines \/ HeaderOnlyInput)) => outcome.kind = "Error"

\* C4: with the column roles resolved and at least one data line, when no data
\* line yields both a frequency and a power the invocation rejects with a generic
\* Error whose message is not that of a header without rows nor that of an
\* empty input.
C4_NoValidDataHasItsOwnMessage ==
    (Loaded /\ HasLines) =>
        LET cur == Cur
        IN  (/\ ColumnsResolved(cur.cols)
             /\ Len(cur.readings) >= 1
             /\ Len(cur.retained) = 0) =>
               /\ outcome.kind = "Error"
               /\ outcome.message = MsgNoValidData
               /\ outcome.message \notin {MsgHeaderOnly, MsgEmptyFile, MsgNoLines}

\* C4's case: several data lines are present and none of them parses.
C4_Witness ==
    /\ Loaded
    /\ outcome.kind = "Error"
    /\ outcome.message = MsgNoValidData
    /\ Len(Cur.readings) >= 2
    /\ Len(Cur.retained) = 0

FiniteRecords(records) ==
    \A i \in DOMAIN records :
        IsFinite(records[i].frequency) /\ IsFinite(records[i].power)

\* C5: every record of a returned report, and every record that contributes to
\* stats, has a finite frequency and a finite power.
C5_ReportedRecordsAreFinite ==
    Reported =>
        /\ FiniteRecords(outcome.report.samples.firstRows)
        /\ FiniteRecords(outcome.report.samples.lastRows)
        /\ FiniteRecords(outcome.report.samples.peakPowerRows)
        /\ IsFinite(outcome.report.stats.frequency.max)
        /\ IsFinite(outcome.report.stats.power.max)

\* C6: in a returned report the stats bound every retained record, each bound
\* is the value of a retained record, and every sample record is a retained
\* record.
C6_StatsBoundTheRetainedRecords ==
    Reported =>
        LET st == outcome.report.stats
            sm == outcome.report.samples
            retained == Cur.retained
        IN  /\ \A i \in DOMAIN retained :
                  /\ FLe(st.frequency.min, retained[i].frequency)
                  /\ FLe(retained[i].frequency, st.frequency.max)
                  /\ FLe(st.power.min, retained[i].power)
                  /\ FLe(retained[i].power, st.power.max)
            /\ \E i \in DOMAIN retained : retained[i].frequency = st.frequency.min
            /\ \E i \in DOMAIN retained : retained[i].frequency = st.frequency.max
            /\ \E i \in DOMAIN retained : retained[i].power = st.power.min
            /\ \E i \in DOMAIN retained : retained[i].power = st.power.max
            /\ \A s \in {sm.firstRows, sm.lastRows, sm.peakPowerRows} :
                  \A j \in DOMAIN s : \E i \in DOMAIN retained : s[j] = retained[i]

\* C6's case: a report over several records of different frequency and power,
\* from a file of which a row was dropped.
C6_Witness ==
    /\ Reported
    /\ outcome.report.stats.frequency.min # outcome.report.stats.frequency.max
    /\ outcome.report.stats.power.min # outcome.report.stats.power.max
    /\ Len(Cur.retained) < Len(Cur.readings)

\* C7: in a returned report stats.power.avg is the sum of the power of the
\* retained records divided by their number.
C7_AverageIsMeanOfRetained ==
    Reported =>
        LET retained == Cur.retained
        IN  outcome.report.stats.power.avg = FDiv(SumPower(retained), Len(retained))

\* C7's case: a report over several records, from a file with a dropped row
\* whose power parses.
C7_Witness ==
    /\ Reported
    /\ LET cur == Cur
       IN  /\ Len(cur.retained) >= 2
           /\ \E i \in DOMAIN cur.readings :
                 ~cur.readings[i].parses /\ ~IsNaN(cur.readings[i].power)

\* C8: in a returned report peakPowerRows has min(10, n) records of n retained,
\* in order of non-increasing power, no record left out has more power than one
\* kept, and records of equal power stand in their file order.
C8_PeakRowsAreTheTopTenByPower ==
    Reported =>
        LET peak == outcome.report.samples.peakPowerRows
            m == Len(peak)
            retained == Cur.retained
        IN  /\ m = Min(10, Len(retained))
            /\ \A j \in 1..(m - 1) : FLe(peak[j + 1].power, peak[j].power)
            /\ \A r \in Range(retained) :
                  /\ Count(peak, r) <= Count(retained, r)
                  /\ Count(peak, r) < Count(retained, r) => FLe(r.power, peak[m].power)
            /\ \A r \in Range(peak) :
                  IsPrefix(SelectSeq(peak, LAMBDA q : q.power = r.power),
                           SelectSeq(retained, LAMBDA q : q.power = r.power))

\* C8's case: more than ten retained records, of which differing records tie
\* on power within the sample.
C8_Witness ==
    /\ Reported
    /\ LET peak == outcome.report.samples.peakPowerRows
       IN  \E j \in 1..(Len(peak) - 1) :
              peak[j].power = peak[j + 1].power /\ peak[j] # peak[j + 1]
    /\ Len(Cur.retained) > 10

\* C9: in a returned report firstRows is the first min(10, n) retained records
\* and lastRows the last min(10, n), both in file order.
C9_FirstAndLastRows ==
    Reported =>
        LET retained == Cur.retained
            n == Len(retained)
            m == Min(10, n)
        IN  /\ outcome.report.samples.firstRows = SubSeq(retained, 1, m)
            /\ outcome.report.samples.lastRows = SubSeq(retained, n - m + 1, n)

\* C9's case: more than ten retained records, so the two samples differ.
C9_Witness ==
    /\ Reported
    /\ outcome.report.samples.firstRows # outcome.report.samples.lastRows
    /\ Len(Cur.retained) > 10

\* C10: when no retained record carries a timestamp the report has no
\* timeStats field.
C10_NoTimestampNoTimeStats ==
    Reported =>
        LET retained == Cur.retained
        IN  (\A i \in DOMAIN retained : "timestamp" \notin DOMAIN retained[i]) =>
               "timeStats" \notin DOMAIN outcome.report

\* C10's case: a time column is resolved, only a dropped row has a timestamp
\* that parses, and the report has no timeStats.
C10_Witness ==
    /\ Reported
    /\ "timeStats" \notin DOMAIN outcome.report
    /\ LET cur == Cur
       IN  /\ cur.cols.timeIndex # -1
           /\ \A i \in DOMAIN cur.retained : "timestamp" \notin DOMAIN cur.retained[i]
           /\ \E i \in DOMAIN cur.readings :
                 /\ ~cur.readings[i].parses
                 /\ IsFinite(cur.readings[i].timestamp)

\* The data section of the current input: where it starts among the non-blank
\* lines (0-based) and whether its first line is a header.
DataSection ==
    LET lines     == NonBlankLines(file.text)
        delimiter == DelimiterOf(lines)
        start     == dataStartIndex(lines, delimiter)
    IN  [lines |-> lines, delimiter |-> delimiter, start |-> start,
         header |-> hasHeader(parseCsvRow(lines[start + 1], delimiter))]

\* C11: in a returned report rowCount is the number of non-blank lines of the
\* data section, the header line not counted and the dropped rows counted, so
\* that it is at least the number of retained records.
C11_RowCountCountsDataLines ==
    Reported =>
        LET section == DataSection
            cur == Cur
            rowCount == outcome.report.rowCount
        IN  /\ rowCount = Len(section.lines) - section.start
                             - (IF section.header THEN 1 ELSE 0)
            /\ rowCount = Len(cur.readings)
            /\ rowCount >= Len(cur.retained)

\* C11's case: a report from a file with a header and with a dropped row.
C11_Witness ==
    /\ Reported
    /\ DataSection.header
    /\ outcome.report.rowCount > Len(Cur.retained)
    /\ outcome.report.rowCount = Len(DataSection.lines) - 1

RoleOf(key) ==
    CASE key = "manualFreqIndex"  -> "freqIndex"
      [] key = "manualPowerIndex" -> "powerIndex"
      [] key = "manualTimeIndex"  -> "timeIndex"

\* C13: every column index supplied in the options is the index used for its
\* role, also when it is supplied alone: the rows of the outcome are read with
\* it, and inference does not replace it.
C13_SuppliedIndexIsUsed ==
    (Loaded /\ HasLines) =>
        LET cur == Cur
        IN  \A key \in DOMAIN options : cur.cols[RoleOf(key)] = options[key]

\* C14: every invocation is handed at most MAX_FILE_SIZE_BYTES bytes, a
\* contiguous range lying within the file it is taken from: on upload, for a
\* segment of a large file, and for the retry with the columns selected.
C14_InvocationsHandedAtMostTheLimit ==
    \A i \in DOMAIN calls :
        /\ calls[i].end - calls[i].start <= MAX_FILE_SIZE_BYTES
        /\ 0 <= calls[i].start
        /\ calls[i].start <= calls[i].end
        /\ calls[i].end <= calls[i].of

\* C15: the records are in MHz and in dBm whatever the unit of the cell: a
\* frequency cell in GHz, kHz or Hz is converted to its value in MHz and a power
\* cell in mW to dBm (10 dBm for each power of ten).
C15_UnitsAreNormalized ==
    Reported =>
        LET cur == Cur
        IN  \A i \in DOMAIN cur.readings :
              LET r == cur.readings[i]
                  fcell == CellAt(r.values, cur.cols.freqIndex)
                  pcell == CellAt(r.values, cur.cols.powerIndex)
              IN  r.parses =>
                    /\ fcell.suffix = "ghz" => r.frequency = FScale(fcell.num, 1000)
                    /\ fcell.suffix = "khz" => FScale(r.frequency, 1000) = fcell.num
                    /\ fcell.suffix = "hz" => FScale(r.frequency, 10 ^ 6) = fcell.num
                    /\ pcell.suffix = "mw" =>
                          \E e \in 0..3 : pcell.num = Num(10 ^ e) /\ r.power = Num(10 * e)

\* C16: two calls of generateDeceptionScenario with the same SimulationParams
\* and the same analysis report return the same scenario text, the same
\* anomalies and the same spectrum values for every timestep.
C16_SameCallSameScenario ==
    \A g1, g2 \in generated :
        g1.params = g2.params /\ g1.content = g2.content => g1.result = g2.result

\* C17: after any sequence of runs, history selections, refreshes and clears
\* the history holds at most 50 items, newest first; a step that changes it
\* either empties it or puts one newer item in front of the earlier ones, all
\* of them kept in their order but for the oldest of a full history; and Clear
\* History empties it.
C17_HistoryBoundedNewestFirst ==
    /\ [](/\ Len(history) <= 50
          /\ \A i, j \in DOMAIN history : i < j => history[i].id > history[j].id)
    /\ [][\/ history' = history
          \/ history' = <<>>
          \/ /\ Len(history') >= 1
             /\ \A i \in DOMAIN history : history'[1].id > history[i].id
             /\ Tail(history') = IF Len(history) = 50
                                 THEN SubSeq(history, 1, Len(history) - 1)
                                 ELSE history]_vars
    /\ [][ClearHistory => history' = <<>>]_vars

\* a full history that has lost its oldest items, the newest in front
C17_Witness ==
    /\ Len(history) = 50
    /\ history[50].id > 1
    /\ history[1].id = clock

\* C18: when the first non-blank line has at least two fields and a
\* numeric-like first cell, no header is detected: the headers are Column 1 to
\* Column k, k the field count of that line, and that line and every non-blank
\* line after it are data rows, so that rowCount is the number of non-blank
\* lines, whatever the other cells of the first line hold.
C18_NumericFirstCellMeansNoHeader ==
    (Loaded /\ HasLines) =>
        LET section == DataSection
            cur == Cur
            firstLineValues == parseCsvRow(section.lines[1], section.delimiter)
        IN  LooksLikeData(firstLineValues) =>
                /\ cur.headerValues =
                       [i \in 1..Len(firstLineValues) |-> SyntheticHeader(i)]
                /\ Len(cur.readings) = Len(section.lines)
                /\ Reported => outcome.report.rowCount = Len(section.lines)

\* The sample of the current input and, for a candidate delimiter, how many
\* sampled lines it splits into more than one field.
Sample == Take(NonBlankLines(file.text), DelimiterSampleSize)

SplitLines(sampleLines, d) ==
    Cardinality({i \in DOMAIN sampleLines : Len(SplitOn(sampleLines[i], d)) > 1})

\* C19: over the first 50 non-blank lines at most, a candidate delimiter that
\* splits fewer than half of the sampled lines into more than one field is
\* discarded and so is never the delimiter selected, however many lines are
\* sampled.
C19_MinorityDelimiterNeverSelected ==
    (Loaded /\ HasLines) =>
        LET sampleLines == Sample
            selected == detectDelimiter(sampleLines)
        IN  \A d \in {",", ";", "\t"} :
                2 * SplitLines(sampleLines, d) < Len(sampleLines) => selected # d

\* The candidates of the current sample that are kept and whose field counts
\* deviate by less than 0.5, by their place in the order comma, semicolon, tab.
LowDeviation(sampleLines) ==
    {i \in DOMAIN Delimiters :
        LET counts == FieldCounts(sampleLines, Delimiters[i])
        IN  /\ ~DelimiterDiscarded(counts, Len(sampleLines))
            /\ 4 * Variance(counts).num < Variance(counts).den}

\* whether the counts of the i-th candidate deviate no more than those of the j-th
NoMoreDeviant(sampleLines, i, j) ==
    LET vi == Variance(FieldCounts(sampleLines, Delimiters[i]))
        vj == Variance(FieldCounts(sampleLines, Delimiters[j]))
    IN  vi.num * vj.den <= vj.num * vi.den

TopColumn(headerValues, keywords, taken) ==
    LET scoring == {i \in DOMAIN headerValues :
                       /\ (i - 1) \notin taken
                       /\ scoreHeader(headerValues[i], keywords) > 0}
    IN  IF scoring = {} THEN -1
        ELSE (CHOOSE i \in scoring :
                 \A j \in scoring :
                     \/ scoreHeader(headerValues[i], keywords)
                            > scoreHeader(headerValues[j], keywords)
                     \/ /\ scoreHeader(headerValues[i], keywords)
                              = scoreHeader(headerValues[j], keywords)
                        /\ i <= j) - 1

\* whether two distinct columns score, one for frequency and one for power
RolePairExists(headerValues) ==
    \E i, j \in DOMAIN headerValues :
        /\ i # j
        /\ scoreHeader(headerValues[i], freqKeywords) > 0
        /\ scoreHeader(headerValues[j], powerKeywords) > 0

\* whether the only column that scores for power is the top frequency column
PowerOnlyOnTopFrequency(headerValues) ==
    /\ TopColumn(headerValues, powerKeywords, {}) # -1
    /\ TopColumn(headerValues, powerKeywords, {}) = TopColumn(headerValues, freqKeywords, {})
    /\ TopColumn(headerValues, powerKeywords,
                 {TopColumn(headerValues, freqKeywords, {})}) = -1

\* C21: when inference runs it assigns both frequency and power whenever two
\* distinct columns score, one for frequency and one for power, and the call
\* fails with a ColumnDetectionError only when there is no such pair; when the
\* only power candidate is the top frequency candidate, power takes that column
\* and frequency the best of the remaining frequency candidates.
C21_InferenceSucceedsOnAnyRolePair ==
    (Loaded /\ HasLines /\ InferenceRuns(options)) =>
        LET cur == Cur
            h == cur.headerValues
        IN  /\ RolePairExists(h) =>
                   /\ cur.cols.freqIndex # -1 /\ cur.cols.powerIndex # -1
                   /\ outcome.kind # "ColumnDetectionError"
            /\ ~RolePairExists(h) => outcome.kind = "ColumnDetectionError"
            /\ (RolePairExists(h) /\ PowerOnlyOnTopFrequency(h)) =>
                   /\ cur.cols.powerIndex = TopColumn(h, powerKeywords, {})
                   /\ cur.cols.freqIndex =
                         TopColumn(h, freqKeywords, {cur.cols.powerIndex})

\* C21's case: the only power candidate is the top frequency candidate and
\* another column scores for frequency; the call does not fail on the columns.
C21_Witness ==
    /\ Loaded /\ HasLines /\ InferenceRuns(options)
    /\ RolePairExists(Cur.headerValues)
    /\ PowerOnlyOnTopFrequency(Cur.headerValues)
    /\ outcome.kind = "report"

\* C22: whenever inference assigns both frequency and power, the two are
\* different columns, and the timestamp index, when one is assigned, is neither
\* of them: inference gives no column two roles.
C22_InferredRolesAreDistinct ==
    (Loaded /\ HasLines /\ InferenceRuns(options)) =>
        LET cols == Cur.cols
        IN  ColumnsResolved(cols) =>
                /\ cols.freqIndex # cols.powerIndex
                /\ cols.timeIndex # -1 =>
                       cols.timeIndex \notin {cols.freqIndex, cols.powerIndex}

\* C22's case: the column that ranks first for time is the one taken for
\* frequency, and the timestamp is assigned to another column.
C22_Witness ==
    /\ Loaded /\ HasLines /\ InferenceRuns(options)
    /\ ColumnsResolved(Cur.cols)
    /\ TopColumn(Cur.headerValues, timeKeywords, {}) = Cur.cols.freqIndex
    /\ Cur.cols.timeIndex # -1

\* C23: the candidates of a role rank by descending score, the lowest column
\* index first among equal scores, and the column chosen for a role is the
\* first in that rank outside the columns of the roles assigned before it:
\* frequency, power, timestamp in that order, or power, frequency, timestamp
\* when no power candidate is left beside the top frequency candidate.
C23_RolesGoToTheTopRankedFreeColumn ==
    (Loaded /\ HasLines /\ InferenceRuns(options)) =>
        LET cur == Cur
            h == cur.headerValues
            cols == cur.cols
            f1 == TopColumn(h, freqKeywords, {})
            p1 == TopColumn(h, powerKeywords, {f1})
        IN  /\ IF p1 # -1
               THEN cols.freqIndex = f1 /\ cols.powerIndex = p1
               ELSE /\ cols.powerIndex = TopColumn(h, powerKeywords, {})
                    /\ cols.freqIndex = TopColumn(h, freqKeywords, {cols.powerIndex})
            /\ cols.timeIndex =
                  TopColumn(h, timeKeywords, {cols.freqIndex, cols.powerIndex})

\* C23's case: two columns score the same for frequency, a third scores less,
\* and the roles are assigned.
C23_Witness ==
    /\ Loaded /\ HasLines /\ InferenceRuns(options)
    /\ ColumnsResolved(Cur.cols)
    /\ \E i, j, k \in DOMAIN Cur.headerValues :
          /\ i < j
          /\ Cur.cols.freqIndex = i - 1
          /\ scoreHeader(Cur.headerValues[i], freqKeywords)
                = scoreHeader(Cur.headerValues[j], freqKeywords)
          /\ scoreHeader(Cur.headerValues[k], freqKeywords) > 0
          /\ scoreHeader(Cur.headerValues[k], freqKeywords)
                < scoreHeader(Cur.headerValues[i], freqKeywords)

\* The timestamp cell of each retained data line, in file order.
RetainedTimeCells ==
    LET cur  == Cur
        kept == SelectSeq(cur.readings, LAMBDA r : r.parses)
    IN  [i \in 1..Len(kept) |-> CellAt(kept[i].values, cur.cols.timeIndex)]

\* A cell that is a number as it stands.
IsNumberCell(c) == ~Falsy(c) /\ IsFinite(ToNumber(c))

\* The finite timestamps carried by the records of a sample.
FiniteTimestamps(records) ==
    {records[i].timestamp :
        i \in {j \in DOMAIN records : "timestamp" \in DOMAIN records[j]
                                        /\ IsFinite(records[j].timestamp)}}

LeastOf(ts) == CHOOSE t \in ts : \A u \in ts : FLe(t, u)

GreatestOf(ts) == CHOOSE t \in ts : \A u \in ts : FLe(u, t)

\* C24: the record of a row whose timestamp cell is the number v carries v as
\* its milliseconds when v > 10^12 and v * 1000 otherwise, each row by its own
\* value; the durationSeconds of timeStats is (max - min) / 1000 over the
\* milliseconds the records carry.
C24_EpochScaleDecidedPerRow ==
    (Reported /\ Cur.cols.timeIndex # -1) =>
        LET cells == RetainedTimeCells
            rows  == outcome.report.samples.firstRows
        IN  /\ \A i \in DOMAIN rows :
                  IsNumberCell(cells[i]) =>
                      LET v == ToNumber(cells[i])
                      IN  /\ "timestamp" \in DOMAIN rows[i]
                          /\ rows[i].timestamp =
                                IF FGt(v, Norm(10 ^ 6, 0)) THEN v ELSE FScale(v, 1000)
            /\ "timeStats" \in DOMAIN outcome.report =>
                  LET ts == FiniteTimestamps(rows)
                  IN  /\ ts # {}
                      /\ outcome.report.timeStats.durationSeconds
                            = FDiv(FSub(GreatestOf(ts), LeastOf(ts)), 1000)

\* C24's case: a column that mixes a seconds-scale and a millisecond-scale
\* value, both rows retained, and a report with the duration between them.
C24_Witness ==
    /\ Reported
    /\ Cur.cols.timeIndex # -1
    /\ \E i, j \in DOMAIN RetainedTimeCells :
          /\ RetainedTimeCells[i] = EpochSecLater
          /\ RetainedTimeCells[j] = EpochMs
    /\ "timeStats" \in DOMAIN outcome.report
    /\ outcome.report.timeStats.durationSeconds = FDiv(Norm(0, 60000), 1000)

\* A cell that is a time: a number as it stands, or a date.
IsTimeCell(c) == ~Falsy(c) /\ (IsFinite(ToNumber(c)) \/ ~IsNaN(DateGetTime(c)))

\* The records the data lines with a parseable frequency and power stand for,
\* in file order: each with the timestamp of its cell when the cell is a time,
\* without the field otherwise.
RecordsByFrequencyAndPower ==
    LET cur  == Cur
        kept == SelectSeq(cur.readings, LAMBDA r : r.parses)
    IN  [i \in 1..Len(kept) |->
            IF IsTimeCell(CellAt(kept[i].values, cur.cols.timeIndex))
            THEN [frequency |-> kept[i].frequency, power |-> kept[i].power,
                  timestamp |-> kept[i].timestamp]
            ELSE [frequency |-> kept[i].frequency, power |-> kept[i].power]]

\* C25: a data row is retained by its frequency and power cells alone; a row
\* whose timestamp cell is missing or is no time is retained as a record
\* without a timestamp field, enters the samples and the statistics as any
\* other record does, and neither fails the call nor costs another row.
C25_RetentionIgnoresTimestampCell ==
    (Loaded /\ HasLines /\ ColumnsResolved(Cur.cols) /\ Cur.cols.timeIndex # -1) =>
        LET records == RecordsByFrequencyAndPower
        IN  Len(records) > 0 =>
                /\ outcome.kind = "report"
                /\ outcome.report.samples.firstRows = Take(records, SampleSize)
                /\ outcome.report.samples.lastRows = TakeLast(records, SampleSize)
                /\ outcome.report.stats.power.avg
                      = FDiv(SumPower(records), Len(records))

\* C26: what an invocation reports of the shape of its input (the header
\* list, columnCount, rowCount, and with them the delimiter and the boundary
\* they follow from) is the same with and without ParseOptions: a report on a
\* text carries the headers that the ColumnDetectionError of an earlier
\* invocation on that text without options carried, one per column, and the
\* error's sample is the first rows of the rows the report counts; two reports
\* on a text agree on headers, columnCount and rowCount whatever their options.
C26_InputShapeIndependentOfOptions ==
    Reported =>
        \A s \in settled :
            s.text = file.text =>
                /\ s.outcome.kind = "ColumnDetectionError" =>
                      /\ outcome.report.headers = s.outcome.headers
                      /\ outcome.report.columnCount = Len(s.outcome.headers)
                      /\ Len(s.outcome.sampleData)
                            = Min(ErrorSampleSize, outcome.report.rowCount)
                /\ s.outcome.kind = "report" =>
                      /\ outcome.report.headers = s.outcome.report.headers
                      /\ outcome.report.columnCount = s.outcome.report.columnCount
                      /\ outcome.report.rowCount = s.outcome.report.rowCount

\* C26's case: an invocation without options failed with a
\* ColumnDetectionError, and the retry on the same text with explicit indices
\* reports.
C26_Witness ==
    /\ Reported
    /\ BothManual
    /\ \E s \in settled :
          /\ s.text = file.text
          /\ s.options = NoOptions
          /\ s.outcome.kind = "ColumnDetectionError"

\* C27: when a retained record carries a time, the report has timeStats with
\* start the least and end the greatest of the times the retained records
\* carry, start <= end, and durationSeconds = (end - start) / 1000 >= 0; a row
\* whose timestamp cell is odd takes nothing from what the other rows give.
C27_TimeStatsSpanTheRetainedTimes ==
    Reported =>
        LET ts == FiniteTimestamps(outcome.report.samples.firstRows)
        IN  ts # {} =>
                /\ "timeStats" \in DOMAIN outcome.report
                /\ LET timeStats == outcome.report.timeStats
                   IN  /\ timeStats.start = LeastOf(ts)
                       /\ timeStats.end = GreatestOf(ts)
                       /\ FLe(timeStats.start, timeStats.end)
                       /\ timeStats.durationSeconds
                             = FDiv(FSub(timeStats.end, timeStats.start), 1000)

\* C28: a result is stored (fileAnalysisReport or fileAnalysisError set) only
\* by the invocation started last, and only while the file it was started for
\* is the file selected: no result of an analysis of a file since replaced or
\* cleared, and none of an analysis since superseded, reaches the state.
C28_StoredResultIsOfLatestAnalysis ==
    [][(Len(calls') < Len(calls) /\ (analysisReport' \/ analysisError' # "none")) =>
           /\ uploadedFile # NoUpload
           /\ calls' = SubSeq(calls, 1, Len(calls) - 1)
           /\ calls[Len(calls)].of = uploadedFile.size]_vars

\* C29: fileAnalysisReport and fileAnalysisError are never both set.
C29_ReportAndErrorNeverBoth == ~(analysisReport /\ analysisError # "none")

\* C30: after any mode-tab clicks, parameter changes, history selections and
\* refreshes, each with the mode effect it sets off, the mode is analyze if
\* and only if params.deceptionTarget is ANALYZE_UPLOADED_DATA.
C30_AnalyzeModeIffAnalyzeTarget ==
    (mode = "analyze") <=> (params.deceptionTarget = "ANALYZE_UPLOADED_DATA")

\* C30's case: an analyze run and then a generate run are in the history, and
\* the item of the analyze run has been selected from generate mode: the mode
\* is analyze with no file held and that item's scenario shown.
C30_Witness ==
    /\ Len(history) = 2
    /\ history[1].params.deceptionTarget # "ANALYZE_UPLOADED_DATA"
    /\ history[2].params.deceptionTarget = "ANALYZE_UPLOADED_DATA"
    /\ mode = "analyze"
    /\ uploadedFile = NoUpload
    /\ params = history[2].params
    /\ analysisResult = [isNull |-> FALSE, scenario |-> history[2].scenario,
                         visualizerData |-> history[2].visualizerData]

====
